----------------------------- MODULE Dashboard ------------------------------
(***************************************************************************)
(* The dashboard in the browser: its location and router (app/routes.js    *)
(* and angular-route), the page on the screen, and the tables of that page *)
(* (ListingController and pollListing in app/util.js, ng-table).           *)
(*                                                                         *)
(* A click changes the location at once; the page follows when its         *)
(* template has been loaded, and until then the page that is left stays on *)
(* the screen, polls, and can be clicked on.  A poll is a request whose    *)
(* response may be computed and delivered late, after others, or after its *)
(* page was left: its callback then writes to a scope that nobody sees.    *)
(* Charts are in UtilizationView and UtilizationPoll.                      *)
(***************************************************************************)
EXTENDS Pages, Listing, FiniteSets

CONSTANTS
  MaxVersion,  \* bound: the states of the cluster, one after the other
  Rows,        \* the rows of every list of Heapster in each version
  Links,       \* the paths that the user opens other than by a row
  Headers,     \* the headers that the user clicks: columns of each list
  MaxLoads,    \* bound: template loads under way
  MaxPolls     \* bound: list polls under way

Versions == 1 .. MaxVersion

ASSUME DashboardConstants ==
  /\ MaxVersion \in Nat \ {0}
  /\ Links \subseteq Seq(STRING) \ {<<>>}
  /\ \A h \in Headers : h.column \in {"name", "memUsage", "cpuUsage"}
  /\ MaxLoads \in Nat
  /\ MaxPolls \in Nat

\* A list of Heapster is finite, and its names have as many parts as goTo
\* expects, none of them empty.
ASSUME HeapsterRows ==
  \A v \in Versions : \A link \in DOMAIN Rows[v] :
    /\ IsFiniteSet(Rows[v][link])
    /\ \A r \in Rows[v][link] :
         /\ r \in [name : Seq(STRING \ {Empty}), rank : Int, memUsage : Int, cpuUsage : Int]
         /\ Len(r.name) = NameParts(link)

VARIABLES
  version,   \* the state of the cluster
  path,      \* $location.path()
  loads,     \* the template loads under way; current: for $route.current
  failed,    \* did the load for $route.current fail
  view,      \* the page on the screen
  wiped,     \* were its charts removed
  wanted,    \* what the user asked for last
  tables,    \* items and order of the tables of the page on the screen
  polls,     \* list polls under way; live: of the page on the screen
  ticking    \* list intervals; live: of the page on the screen

vars == <<version, path, loads, failed, view, wiped, wanted, tables, polls, ticking>>
Routing == <<path, loads, failed, view, wiped, wanted>>

NoView == [page |-> "none", params |-> <<>>]
NewTable == [items |-> <<>>, order |-> DefaultOrder]

\* The lists of the page on the screen, and what Heapster answers for one
Lists == ListLinks(view)
RowsOf(link, ver) ==
  IF link \in DOMAIN Rows[ver] THEN Rows[ver][link] ELSE {}

Sorters ==
  [column : {"name", "memUsage", "cpuUsage"}, direction : {"asc", "desc"}]

TypeOK ==
  /\ version \in Versions
  /\ IsPage(path)
  /\ \A l \in loads : l.to.page \in Controllers /\ l.current \in BOOLEAN
  /\ Cardinality({l \in loads : l.current}) <= 1
  /\ failed \in BOOLEAN /\ wiped \in BOOLEAN
  /\ view = NoView \/ view.page \in Controllers
  /\ DOMAIN tables = DOMAIN Lists
  /\ \A k \in DOMAIN tables : tables[k].order \in Seq(Sorters)
  /\ \A i \in DOMAIN polls : polls[i].at \in Versions \cup {0}

\* The dashboard is opened at the Cluster page.
Init ==
  /\ version = 1
  /\ path = Root
  /\ loads = {[to |-> RouteOf(Root), current |-> TRUE]}
  /\ failed = FALSE
  /\ view = NoView
  /\ wiped = FALSE
  /\ wanted = <<>>
  /\ tables = <<>>
  /\ polls = <<>>
  /\ ticking = {}

-----------------------------------------------------------------------------
(* Leaving and showing pages *)

\* Faulty variant: only the interval of the page's outer scope is cancelled.
Uncancelled_Inner ==
  {[t EXCEPT !.live = FALSE] : t \in {u \in ticking : ~u.live \/ u.table = 2}}

\* ListingController's $destroy handler cancels its interval.
Uncancelled == {t \in ticking : ~t.live}

Orphaned == [i \in DOMAIN polls |-> [polls[i] EXCEPT !.live = FALSE]]

\* The router empties ng-view: the scope of the page is destroyed.
Clear ==
  /\ view' = NoView
  /\ tables' = <<>>
  /\ polls' = Orphaned
  /\ ticking' = Uncancelled

\* ng-view shows a page: the old scope is destroyed, then the page's
\* controllers run; every list is polled at once and then at an interval.
Show(v) ==
  LET links == ListLinks(v)
      asked == [k \in DOMAIN links |-> [table |-> k, link |-> links[k], live |-> TRUE]]
  IN  /\ Len(polls) + Len(links) <= MaxPolls
      /\ view' = v
      /\ tables' = [k \in DOMAIN links |-> NewTable]
      /\ ticking' = Uncancelled \cup ToSet(asked)
      /\ polls' = Orphaned \o
           [k \in DOMAIN links |->
              [table |-> k, link |-> links[k], live |-> TRUE, at |-> 0]]

-----------------------------------------------------------------------------
(* Navigation *)

Pending == \E l \in loads : l.current

\* The location changes to p.  The charts on the screen are removed
\* ($routeChangeStart), and the load of the template of the page of p begins.
\* On a redirection ng-view is emptied first, since its route has no template.
Go(p, what) ==
  /\ p # path
  /\ Cardinality(loads) < MaxLoads
  /\ path' = Canonical(p)
  /\ wanted' = what
  /\ failed' = FALSE
  /\ loads' = {[l EXCEPT !.current = FALSE] : l \in loads}
                \cup {[to |-> RouteOf(Canonical(p)), current |-> TRUE]}
  /\ IF IsPage(p) THEN UNCHANGED <<view, tables, polls, ticking>> ELSE Clear
  /\ wiped' = (view' # NoView)
  /\ UNCHANGED version

\* The user follows a link of the navigation bar, a bookmark or a typed path.
FollowLink(p) == Go(p, Subject(RouteOf(Canonical(p))))

\* The user clicks the i-th row of the k-th table.
ClickRow(k, i) ==
  LET name == tables[k].items[i].name
  IN  Go(GoTo(view, k, name), Entity(Lists[k], name))

\* Faulty variant: any template that arrives is shown.
LoadDone_Any(l) ==
  /\ loads' = loads \ {l}
  /\ Show(l.to)
  /\ wiped' = FALSE
  /\ UNCHANGED <<version, path, failed, wanted>>

\* Faulty variant: the charts are removed when the new page is there.
LoadDone_Wipes(l) ==
  /\ l.current
  /\ loads' = loads \ {l}
  /\ Show(l.to)
  /\ wiped' = (view # NoView)
  /\ UNCHANGED <<version, path, failed, wanted>>

\* The template of the current route arrives and its page is shown.
LoadDone(l) ==
  /\ l.current
  /\ loads' = loads \ {l}
  /\ Show(l.to)
  /\ wiped' = FALSE
  /\ UNCHANGED <<version, path, failed, wanted>>

\* A load ends for a route that is no longer current: nothing happens.
LoadStale(l) ==
  /\ ~l.current
  /\ loads' = loads \ {l}
  /\ UNCHANGED <<version, path, failed, view, wiped, wanted, tables, polls, ticking>>

\* The template of the current route cannot be loaded: nobody handles
\* $routeChangeError, and the screen stays as it is.
LoadFails(l) ==
  /\ l.current
  /\ loads' = loads \ {l}
  /\ failed' = TRUE
  /\ UNCHANGED <<version, path, view, wiped, wanted, tables, polls, ticking>>

-----------------------------------------------------------------------------
(* Tables *)

\* The interval of a list fires: pollList.
Tick(t) ==
  /\ t \in ticking
  /\ Len(polls) < MaxPolls
  /\ polls' = Append(polls, [table |-> t.table, link |-> t.link, live |-> t.live, at |-> 0])
  /\ UNCHANGED <<version, Routing, tables, ticking>>

\* Heapster (external) computes the response to a poll.
Answer(i) ==
  /\ i \in DOMAIN polls
  /\ polls[i].at = 0
  /\ polls' = [polls EXCEPT ![i].at = version]
  /\ UNCHANGED <<version, Routing, tables, ticking>>

\* A poll fails or comes back with an empty body: $scope is left alone.
Lose(i) ==
  /\ i \in DOMAIN polls
  /\ polls' = RemoveAt(polls, i)
  /\ UNCHANGED <<version, Routing, tables, ticking>>

Response(i) == RowsOf(polls[i].link, polls[i].at)
Arrives(i) == i \in DOMAIN polls /\ polls[i].at # 0 /\ polls' = RemoveAt(polls, i)

\* Faulty variant: the rows go to whatever page is on the screen.
Take_AnyPage(i) ==
  /\ Arrives(i)
  /\ Response(i) # {}
  /\ polls[i].table \in DOMAIN tables
  /\ \E s \in OrderBy(Displayed(Response(i)), tables[polls[i].table].order) :
       tables' = [tables EXCEPT ![polls[i].table].items = s]
  /\ UNCHANGED <<version, Routing, ticking>>

\* Faulty variant: the callback does not sort.
Take_Unsorted(i) ==
  /\ Arrives(i)
  /\ polls[i].live
  /\ Response(i) # {}
  /\ \E s \in SetToSeqs(Displayed(Response(i))) :
       tables' = [tables EXCEPT ![polls[i].table].items = s]
  /\ UNCHANGED <<version, Routing, ticking>>

\* Faulty variant: a table that has rows keeps them.
Take_Once(i) ==
  /\ Arrives(i)
  /\ polls[i].live
  /\ Response(i) # {}
  /\ \E s \in OrderBy(Displayed(Response(i)), tables[polls[i].table].order) :
       tables' = [tables EXCEPT ![polls[i].table].items = IF @ = <<>> THEN s ELSE @]
  /\ UNCHANGED <<version, Routing, ticking>>

\* pollListing's callback: the rows replace the table's, in megabytes and in
\* the table's order.
Take(i) ==
  /\ Arrives(i)
  /\ polls[i].live
  /\ Response(i) # {}
  /\ \E s \in OrderBy(Displayed(Response(i)), tables[polls[i].table].order) :
       tables' = [tables EXCEPT ![polls[i].table].items = s]
  /\ UNCHANGED <<version, Routing, ticking>>

\* An empty list is ignored; rows for a page that was left are seen by nobody.
Ignore(i) ==
  /\ Arrives(i)
  /\ ~polls[i].live \/ Response(i) = {}
  /\ UNCHANGED <<version, Routing, tables, ticking>>

\* A click on a column's header: ng-table changes the order and calls getData,
\* which sorts the rows that are there.
ClickHeader(k, column, ctrl) ==
  /\ k \in DOMAIN tables
  /\ LET order == Clicked(tables[k].order, column, ctrl)
     IN  \E s \in OrderBy(ToSet(tables[k].items), order) :
           tables' = [tables EXCEPT ![k] = [items |-> s, order |-> order]]
  /\ UNCHANGED <<version, Routing, polls, ticking>>

\* The cluster (external) changes.
Change ==
  /\ version + 1 \in Versions
  /\ version' = version + 1
  /\ UNCHANGED <<Routing, tables, polls, ticking>>

Next ==
  \/ \E p \in Links : FollowLink(p)
  \/ \E k \in DOMAIN tables : \E i \in DOMAIN tables[k].items : ClickRow(k, i)
  \/ \E l \in loads : LoadDone(l) \/ LoadStale(l) \/ LoadFails(l)
  \/ \E t \in ticking : Tick(t)
  \/ \E i \in DOMAIN polls : Answer(i) \/ Lose(i) \/ Take(i) \/ Ignore(i)
  \/ \E k \in DOMAIN tables, h \in Headers, ctrl \in BOOLEAN :
       Lists[k] = h.list /\ ClickHeader(k, h.column, ctrl)
  \/ Change

Spec == Init /\ [][Next]_vars

\* A poll of the k-th table on the screen
Of(i, k) == i \in DOMAIN polls /\ polls[i].live /\ polls[i].table = k

\* Intervals fire and requests end; of a list's polls not all are lost.
Fairness ==
  /\ WF_vars(Answer(1) \/ Take(1) \/ Ignore(1))
  /\ \A k \in {1, 2} :
       /\ SF_vars(\E t \in ticking : t.live /\ t.table = k /\ Tick(t))
       /\ SF_vars(\E i \in DOMAIN polls : Of(i, k) /\ Answer(i))
       /\ SF_vars(\E i \in DOMAIN polls : Of(i, k) /\ (Take(i) \/ Ignore(i)))

FairSpec == Spec /\ Fairness

-----------------------------------------------------------------------------
(* Properties *)

\* When no template is on its way the screen shows what the user asked for
\* last, be it by a row, a link or a path with a redirection: templates that
\* come late never replace a newer page, and the entity of a row's page is the
\* row's.  A load that failed is the only exception.
LastClickWins ==
  ~Pending /\ ~failed => view # NoView /\ Subject(view) = wanted

\* The rows in a table are all the rows of one response to that table's own
\* list: polls of another page or of the other table never get into it.
RowsAreTheLists ==
  \A k \in DOMAIN tables :
    tables[k].items = <<>> \/
      \E w \in Versions : ToSet(tables[k].items) = Displayed(RowsOf(Lists[k], w))

\* The rows are in the order that the table's headers show, whatever clicks
\* and polls came in between, for the numbers as displayed.
RowsInOrder == \A k \in DOMAIN tables : Ordered(tables[k].items, tables[k].order)

\* The lists that are polled are those of the page on the screen, once each:
\* leaving a page stops both of its intervals.
OnlyShownListsPolled ==
  ticking = {[table |-> k, link |-> Lists[k], live |-> TRUE] : k \in DOMAIN Lists}

\* A page lost its charts only if the user is leaving it, or wanted to and the
\* next page could not be loaded.
ChartsWipedOnLeaving == wiped => Pending \/ failed

\* A page that is not left catches up with the cluster once that stops
\* changing, although responses overtake each other; except that rows whose
\* list has become empty stay (pollListing ignores an empty list).
UpToDate(w) ==
  \A k \in DOMAIN tables :
    RowsOf(Lists[k], w) # {} =>
      ToSet(tables[k].items) = Displayed(RowsOf(Lists[k], w))

TablesCatchUp == <>[](loads = {}) => <>[]UpToDate(version)

=============================================================================
