# Verification of Kubedash

TLA+ models of Kubedash, TLC runs over small instances of them, and TLAPS
proofs of theorems about them. The models are translated from `src/`;
`PROJECT.json` names for every definition the lines it stands for.

## The system

Kubedash has a web server in Go and a frontend in JavaScript that runs in the
browser. Its data come from Heapster, a service of its own.

| Part | State | Operations | What makes it correct |
|---|---|---|---|
| Web server (`kubedash.go`, `handlers.go`) | the global `heapster_url`; one goroutine per request, with a response `Body` to close | `main`, `setupHandlers`, `apiHandler` | relays only complete 200 bodies, each to the request it belongs to; every path closes the `Body`; every failure upstream is masked; every request ends |
| Chart polling (`app/util.js`: `poll`, `pollUtilization`, `pollStats`) | `$scope.stamp` (the cursor), `$scope.data`, `lastMemLimit`, `lastCPULimit`, stats; requests in flight | a poll every 30 s; two callbacks per metric and one for the stats | a utilization divides a usage by the limit of its time; nothing charted twice or skipped; order; catches up after failures |
| Utilization pages (`UtilizationViewController`, `ChartViewController`, `testLimitToUsageRatio`, the controllers in `app/views.js`) | `$scope.messages`, the limits in use, intervals, `$scope.pollPromise`, limit tests in flight | open and leave a page; test callbacks and their 5 s retry | messages match the limits charted; one interval for the page that is open, none for others; polling starts |
| Listings (`pollListing`, `ListingController`; ng-table, `orderBy`) | `$scope.items`, sort order, interval, polls in flight | poll, sort, leave | a table shows its own list, complete, in the order of its headers, and catches up |
| Routing and page links (`app/routes.js`, `app/views.js`; angular-route) | location, current route, template loads in flight, the page on the screen | `goTo`, links, redirections, load callbacks | the screen ends up with what was asked for last; every link leads to the entity it names |
| Stats formatting (`secondsToDHMS`) | none | a pure function | the text says how much time it was |
| gin (vendored): what a request passes through | a pool of Contexts, each with handlers, index, status; routing trees | `ServeHTTP`, `Next`, `Abort`, `WriteHeader`, `Write`, `Recovery`, `Logger`; `addRoute`, `getValue` | no request sees another's Context or status; headers go out once; handlers run once; every path finds its route |
| Alerts, nav bar highlighting | `$rootScope.alerts`, CSS classes | add, close, click | — |

Interactions: the browser's `$http.get` goes through `apiHandler` to Heapster.
All callbacks of a page share one `$scope` and run one at a time, but between
a request and its callback any other callback, timeout, interval or navigation
can run. A failure of Heapster is turned into an empty 200 reply by
`apiHandler`, which the callbacks take for "no metrics"; a failure between
browser and web server runs no callback at all, since none is registered for
errors.

What is hard: two request chains that share a cursor, each of two requests at
different times; responses that arrive late; a page left with requests and
timeouts under way; a page that runs the same controller twice; requests that
fail half way; pages and tables whose templates and lists arrive out of order;
Contexts that are reused while handlers panic. The list of hazards is in `PROJECT.json`. The repository has no
tests.

## Modules

| Module | Models | Used by |
|---|---|---|
| `ApiProxy` | start-up and `apiHandler` | run directly; `ApiProxyProofs` |
| `Relay` | what the relay promises: the abstract specification that `ApiProxy` implements | `ApiProxy` (as `AbstractRelay`) |
| `GinEngine` | how gin runs the handlers of concurrent requests | `MCGinEngine`, `GinEngineProofs`, `GinRequestProofs` |
| `Exchange` | what a browser sees of gin: the abstract specification that `GinEngine` implements | `GinEngine` (as `AbstractExchange`) |
| `RouteTree` | gin's routing tree, as operators | `MCGinEngine` |
| `UtilizationPoll` | `$scope.poll` and all its callbacks, with Heapster and the network | `MCUtilizationPoll`, `UtilizationPollProofs` |
| `Uptime` | `secondsToDHMS`, as an operator | `UptimeProofs` |
| `UtilizationView` | opening and leaving pages, limit tests, intervals | run directly; `UtilizationViewProofs` |
| `Pages` | routes, the lists of each page, `goTo`, as operators | `Dashboard`, `PagesProofs` |
| `Listing` | rows, sorting and header clicks, as operators | `Dashboard` |
| `Dashboard` | location, router, page and tables together | `MCDashboard`, `DashboardProofs` |

`Dashboard` composes the router with the tables of the page on the screen; a
composition with `UtilizationPoll` would multiply the state of two parts that
share nothing but the moment a page is left, which `UtilizationView` has. The
parts meet at two interfaces: a failed upstream request is an empty 200 reply
(`FailuresAreMasked` in `ApiProxy`; `ServeEmpty`, `Lose` in the browser's
modules), and a handler that returns without writing is a 200 of gin's
(`EmptyReply` in `ApiProxy`; `StatusIsTheRequests` in `GinEngine`).

Operators whose comment begins with "Faulty variant" are changed copies of the
definition that follows them. They are not part of the specifications; each
stands for a plausible mistake that one of the properties has to detect.

### ApiProxy

`main` is where `main()` stands. `pc[c]` is where the handler of connection `c`
stands, one label per call in `apiHandler` that can fail: `get` (before
`http.Get`), `status` (before the status test), `read` (before `ReadAll`),
`write` (before `Write`), `done`. `upstream[c]` is Heapster's response, whose `whole`
says if its body will arrive in full or break off under `ReadAll`, `open[c]`
says that its `Body` is not closed, `client[c]` is what the browser got. Each
early return is an action: `GetFails`, `RejectStatus`, `ReadFails`,
`WriteFails`. gin sends 200 with an empty body if a handler returns without
writing (`EmptyReply`).

`ImplementsRelay` is the refinement: `AbstractRelay` instantiates `Relay` with
`phase` (a handler that runs has *asked*, one at `done` is *answered*), `source`
(the body of the upstream response if its status is 200 and all of it arrives) and `reply` (the body
the browser got, with "nothing" for a connection cut off). Start-up steps and
the steps inside a handler stutter. A handler that fetched twice, or answered
with the body of an earlier request, would have no step of `Relay`.

### GinEngine and RouteTree

`Serve` is the part of `ServeHTTP` that takes a Context from the pool and resets
it; `Dispatch`, `Redirect` and `NotFound` are the outcomes of
`handleHTTPRequest`. `frames[c]` are the middlewares whose `Next` is on the stack
of the goroutine: all their loops run on the one `index` of the Context. What a
handler does to its writer is a script, chosen when it is called: `indexHandler`
can panic or fail to render before or after it wrote; the file server overrides
the 404 that `createStaticHandler` sets; `apiHandler` writes or does not. `wire`
is what went to the browser, `log` what `Logger` wrote. The fields of a Context
in the pool are kept, as they are in the code, so that a missing reset would
show.

`ImplementsExchange` is the refinement: `AbstractExchange` instantiates
`Exchange` with `req` as what each connection has *asked* and `wire` as its
*answer*; `Allowed` are the statuses of the handler that the path's route has
(`Answers`). In `Exchange` connections know nothing of each other, so whatever
happens in the pool of Contexts, in `Next`, `Recovery` and `Logger` has to be a
stutter, a header has to be the one answer of its connection, and `Put` has to
free a connection that was answered.

`RouteTree` has `addRoute`, `insertChild`, `incrementChildPrio` and `getValue` for
routes without `:parameters`, over sequences of characters; the paths of
`setupHandlers` are abbreviated to two letters, which keeps where they share
prefixes. The reference is `Serves`: a path is served by the route it equals or
whose catch-all it continues.

### UtilizationPoll

Heapster's series have one sample per tick, and a response is a *batch*, an
interval of timestamps: the properties only tell apart which times are paired,
charted, skipped. `OldestFirst` chooses the order of `data.metrics`, which the
repository does not fix (its parts presume different ones, see Findings).
`chain[r][m]` is the chain of requests of the poll in slot `r` for metric `m`:
`usageSent`, `usageBack` (the response is on its way), `limitSent`,
`limitBack`. Serving a request and running its callback are separate steps, so
a response can be stale when its callback runs. Several slots are several polls
in progress at a time, which happens when a response takes more than 30 s or
on a page with two intervals. `stamp` is `$scope.stamp`, `data[m]` the chart as
pairs of usage time and limit time, `lastLimit[m]` the time of the limit in the
information box, `uptime` the time of the stats shown. `ServeEmpty` is a failure
that the web server masks, `LoseMetric` and `LoseStats` are requests whose
callback never runs. `RestartChart` is the second `ChartViewController` of a
namespace page: it sets the cursor back to the epoch under the polls in flight;
`charts` counts them; a sample may be charted once per chart and poll that can be
under way at a time (`NoPointTwice`).

`Uptime` is the formatting of the uptime in the stats: the text as the numbers
it shows, and `Read` as what a reader takes from it.

### UtilizationView

Visit `v` is the `v`-th page opened; the callbacks of earlier visits still run.
Kinds of page: `listing` (no chart: Nodes, Namespaces), `direct` (no fallback
limits: Cluster, Node), `fallback` (Pod, Pod Container, Free Container) and
`namespace`, whose controller runs `UtilizationViewController` twice
(`views.js` lines 77 and 84). `test[v][c]` is the limit test of controller
instance `c`; `limitLink[v][c]` says whose limits the instance charts;
`intervals` are the running intervals, `pollPromise[v]` the only one that leaving
the page cancels. On a destroyed scope Angular ignores `$on` and `$watch`, but
`$interval` works: this is how an interval comes to life after its page is gone.

### Dashboard, Pages and Listing

Paths, links and names are sequences of the parts between slashes. `Pages` has
the route table, the redirections that angular-route adds for a slash at the
end, `$routeParams`, the list links and `goTo` of each controller, and the
entity that a row stands for. `Listing` has the rounding to megabytes, `orderBy`
over one or more columns (rows that compare equal may come in any order), and
what a click on a header does with and without the control key.

`path` is `$location.path()`; `loads` the template requests in flight, of which
at most one is `current`; `view` the page on the screen, which lags behind the
path; `wanted` what the user asked for last. `Go` is one digest: the charts are
removed (`$routeChangeStart`), the route becomes current, its template is asked
for; a path with a redirection empties `ng-view` first. `LoadDone`, `LoadStale` and
`LoadFails` are the ends of a load. `tables` are the rows and the order of each
list on the screen, `ticking` the list intervals, `polls` the list requests in
flight; `live` distinguishes those of the page on the screen from those of pages
that were left, whose callbacks still run but on a scope nobody sees. The
cluster is a sequence of versions; `Answer` computes a response from the version
of that moment and `Take` applies it later.

## Runs

| Run | Shows | Bounds |
|---|---|---|
| `proxy` | relayed bodies, closed bodies, masked failures, a truncated body among them; every request finishes; implements `Relay` with its fairness | 2 connections, 2 payloads: two bodies can be confused, on one connection or between two |
| `gin` | contexts, statuses, headers, log, routing tree; implements `Exchange` | 2 connections and 2 contexts, so that contexts change hands; one request for each answer of the routing tree; the tree for all orders of registration and all paths of up to 5 characters out of 7 |
| `poll_quiet` | alignment, no duplicates but one per chart, nothing skipped by both charts, last limit | 1 poll at a time, both metrics, 4 samples of which Heapster keeps 2, losses, 2 charts; samples arrive between polls only; ascending responses |
| `poll_unquiet` | the cursor is a charted time; cursor and stats catch up for good | samples at any time, series up to one tick apart, losses; 2 samples |
| `view_pages` | messages, also those of two instances; polling only after both decisions, and some time; leaving cancels a running interval | 2 visits, all kinds of page, losses; usage 1 and limits 100 and 5000, one valid and one not |
| `dashboard` | last click wins, rows, order, intervals, charts; tables catch up | 2 versions of a cluster with all kinds of list, one of which becomes empty; 2 template loads and 2 polls in flight, so that either can overtake; one link of the navigation bar and one path that redirects |

Few samples suffice for a batch of more than one sample, a second
batch after it, and, in `poll_quiet`, samples that expire unseen. Two visits suffice for a page that is left and one that is alive.
A visit of a namespace page next to one of another page has two instances under
way while other pages open and close. What `view_pages` asks of a test is only
whether it replaces the limit, so it has one usage and one limit for each
outcome. `view_ratio` has usages 0, 1, 5 and limits 0, 100, 5000, which have both
outcomes of each comparison in `testLimitToUsageRatio`, including usage 0 and a
usage at which 5000 is exactly one thousand times as large.

### Findings

Runs that are expected to violate their property; each states what a comment,
a document or an assertion in the repository says.

- `poll_ascending`: with ascending responses the points of a poll are charted
  newest first, although a comment calls `$scope.data` time-ascending. With
  descending responses it would be, but then the limit shown as "the last" one
  (`limit[0]`) is the oldest of the response: no order of `data.metrics` suits
  both.
- `poll_aligned`: a sample that arrives between the usage and the limit request
  shifts all pairs of that poll.
- `poll_skipped`: one chain moves the shared cursor before the other asks for
  its limits; the other gets none, gives up, and never asks for these samples
  again. No failure is needed.
- `view_messages`: two controller instances on a namespace page put the same
  message in a list that `ng-repeat` requires to have no duplicates. For the
  same reason such a page has two polling intervals, of which leaving the page
  cancels one.
- `view_leak`: leaving a page during its limit tests starts an interval that is
  never cancelled.
- `view_ratio`: the comparison in `testLimitToUsageRatio` is the reverse of what
  its comment says.

Three more observations have no run of their own: the uptime text always shows
`0h`, against the comment's "3d 21h 5m 34s" (`util.js` lines 185-190;
`UptimeText` proves that the whole hours are lost and nothing else, `UptimeRight`
that the text is right for one hour of each day only; no state of the program
bears on it, so there is nothing for a run to explore); points are never removed from a chart, so
one that stays open is not "for the past 1 hour" (the repository's README); and
a failed request of a limit test leaves the page without data for good, which
is why `OpenPageGetsPolled` excepts it.

### Fairness

`ApiProxy`: weak fairness of each handler. `http.Get` has no timeout, so this
assumes that Heapster answers or the connection breaks. `UtilizationPoll`: the
interval keeps firing (weak), and requests are lost but not always the same
kind (strong fairness of serving a request and running its callback); Heapster
keeps sampling up to `MaxTime`, after which "catches up" is meaningful.
`GinEngine`: weak fairness of each goroutine that serves a request, whose
handler returns (`EveryRequestFinishes` for `apiHandler`). `Dashboard`: list
intervals fire, and of the polls of a list not all are lost (strong fairness, as
the bound on polls in flight and navigation disable them on and off); no fairness of
template loads or of the user, so `TablesCatchUp` is about a page that is not
left any more. `UtilizationView`: on the page that is open, timeouts fire (weak) and
responses with metrics arrive again and again (strong); no fairness is assumed of
the user, nor of the tests of pages that were left.

Runs without deadlock checking are those in which the system may stop: the web
server exits if it cannot bind its address, and the pages are at rest once
`MaxVisits` pages are open and decided (what their intervals do then is
`UtilizationPoll`).

## Proofs

Assumptions are the typing of the constants (`ProxyConstants`, `PollConstants`,
`EngineConstants`, `ViewConstants`, `DashboardConstants`),
`HeapsterRows`, and what a theorem states itself. `HeapsterRows` says what
`Dashboard` relies on of Heapster: every list is finite, and the elements of a
list have names with as many parts as `goTo` takes apart (two for the pods of a
node, one for all others).

Every safety property of a passing run is proved, but for `RoutesAreFound`, and
so is the safety part of both refinements.

**`ApiProxyProofs`**, for any set of connections and bodies: `TypeOK`,
`RelaysOnlyGoodBodies`, `BodyClosedOnReturn`, `FailuresAreMasked`. The inductive
invariant `IInv` adds `HandlerInv`: past the status test the response has status
200, past `ReadAll` all of its body has arrived, and while the handler runs the
browser has nothing, so no body of an earlier request on the connection is left.
From the same invariant follows `ProxyImplementsRelay`,
step by step: each action of `ApiProxy` is mapped to one of `Relay` or to a
stutter (the fairness of `Relay` is left to TLC).

**`GinEngineProofs`**, for any connections, contexts, requests and routes:
`ContextExclusive` and `HeadersSentOnce`. The invariant `GInv` adds `Holding` (a
connection holds a Context exactly while it serves) and `LineInv` (a status line is on the
wire exactly if the Context in use says so, which is what makes `WriteHeaderNow`
safe to call from everywhere). Neither holds without the other: a Context in two
hands would send to the wrong wire.

**`GinRequestProofs`**, on top of `GInv`: `TypeOK`, `HandlerRunsOnce`,
`StatusIsTheRequests` and `LogIsTrue`. `RInv` says of every connection in which
stage its request is: which of the nested `Next` loops are on the stack, where
the shared index stands for each of them, how much of the handler's script has
been run, and what status the script has noted and sent by then. The three
properties are read off the last stage. That stages of different connections do
not disturb each other is `ContextExclusive` again, so `GInv` is needed in every
step. `GinImplementsExchange` is the refinement of `Exchange`: only `Serve`, the
steps that send a header and `Put` are seen by the browser, a status that is sent
is among the `Answers` of the request (`OwnScript`: a connection runs a script of
its own request's handler), and a connection without a request has nothing on
its wire (`FreeAsksNothing`). `NotedStatus` describes the status after a prefix of a script without
recursion.

**`UtilizationPollProofs`**, for any slots, metrics, number of samples, retention
and either order of responses unless stated:
- `PollTypeOK`: types, with `ChainInv` (a chain that waits for limits holds at
  least one usage), without which the index 0 of the arrays would not be
  typed;
- `PollCursorIsCharted`: with ascending responses, `CursorIsCharted`, for any
  overlap, lag and loss. The first point of every response pair is made of the
  newest usage and the newest limit, one of which is the new cursor;
- `PollPairsAligned`: in quiet rounds without lag, with one chart, `PairsAligned`. The invariant
  `QuietInv` says what each chain may hold: as long as nobody has moved the
  cursor since the poll, usages and limits are asked for from the same time; if
  somebody has, the cursor is at the newest sample and the limit request comes
  back empty. `poll_aligned` shows that the assumptions are needed;
- `PollPairsAlignedRestarted`, `PollLastLimitIsNewest`,
  `PollNothingSkippedByBoth`: the same rounds with ascending responses and any number
  of charts. `QuietInv` fails there, as a restart moves the cursor under a chain
  whose limits then reach further back than its usages. `NewestInv` instead says that
  both end at the newest sample, the end from which they are paired, that no
  chart has anything newer, and that all that is older than what a chain holds
  is on some chart (`CoveredChain`), unless Heapster has dropped it. The last part is why the
  cursor, which the two chains move for each other, passes nothing that
  neither shows;
- `PollNoPointTwice`: the same rounds, and finitely many slots. Polls that overlap
  chart the same samples, each at most once, so a sample is charted at most
  once per slot for every time charting was started. `SharedInv` counts, for
  every sample, the chains that may still chart it together with the points
  that are there: a chain that charts a sample gives up its share, and a sample that
  the cursor has passed can be asked for again only after a restart, which adds
  a share for each slot;
- `PollChartsBounded` sums this over all samples: a chart, from which nothing is
  ever removed, is no longer than samples times shares (`LengthBounded`, a
  pigeonhole argument), and the number of polls does not matter.

The hypotheses of the quiet rounds are constants of the model, not of the code:
samples arrive once a minute or so and a poll takes fractions of a second, so
most rounds are quiet; `poll_aligned` is what happens in the others.

**`UtilizationViewProofs`**, for any resources, limits, visits and kinds of page:
- `ViewTypes` and `PollingAfterTests`: `TypeOK` and `PollersHaveDecided`, with `PageInv`
  (pages that are not open yet have nothing, and an instance that its controller
  does not run has no test);
- `ReplacementsAreTold` and `MessagesAreTrue`: `ReplacementsTold` and
  `MessagesMatchLimits`, by `ToldInv`. Its parts are what is true of a page's list
  (`Told`: the memory message can only be the first), how much room each undecided
  instance leaves in it (`RoomForCPU`: a CPU message always fits), and that an
  instance's memory test finds no message of its own (`MemoryTold`), so that only
  another instance can keep its memory message out, by having put its CPU
  message there first;
- `NoMessageTwice`: without a namespace page, `MessagesDistinct` follows; with one
  `view_messages` refutes it, and `ReplacementsTold` says what is left of it;
- `LeavingCancels`: `LeavingCancelsOne`, by `PromiseRuns` (`pollPromise` names an
  interval that runs, if any does). The two instances of a namespace page overwrite
  `pollPromise`, so that of two intervals one is left.

**`PagesProofs`**, for every path and name: `EveryPathHasAPage` (the router needs
at most one redirection to get to a page) and `RowsLeadToTheirPage` (what `goTo`
makes of a row is the path of a page whose charts are those of the row's
entity). They are lemmas of the next module, which is why they speak of
`Texts`: it is `STRING`, with the parts of the patterns spelt out.

**`DashboardProofs`**, for any cluster, links, headers and bounds:
`OnlyShownListsPolled` and `ChartsWipedOnLeaving`, which are inductive as they
stand, `RowsInOrder`, with `TablesShape`, and `TypeOK`, `RowsAreTheLists`,
`LastClickWins`, which are proved together as `ScreenInv`. A late response is
harmless because a poll that is `live` is one of the lists on the screen
(`ListInv`); a late template because the `current` load is one for the path, and the
path leads to what is `wanted` (`LoadsWanted`, with `PagesProofs`).

**`UptimeProofs`**, for every uptime: `UptimeLosesOnlyHours` (`UptimeText`: the text is
short of the whole hours since the last full day, and of nothing else) and
`UptimeRightForAnHourADay` (`UptimeRight`).

The proofs changed the models in two places: the cases of
`StatusIsTheRequests` overlapped (TLC takes the first that holds, TLA+ allows
any), and `HeapsterRows` had been implicit in the constants of `MCDashboard`.

Only model-checked: liveness and fairness, which are out of the prover's reach
(`EveryRequestFinishes`, `ContextComesBack`, `CursorCatchesUp`, `StatsCatchUp`,
`OpenPageGetsPolled`, `TablesCatchUp`, and the fairness part of
`ImplementsRelay`), and `RoutesAreFound`, which is about what the recursive
operators of `RouteTree` compute.

## Not modelled

The chart's options, unit conversions, templates, the `active` class of the
navigation bar, and the alert stubs, which nobody calls, have no state that the
properties depend on.

Nearly all lines of the repository are vendored: Kubernetes' API packages with
their generated conversions, a YAML scanner, protocol buffers, Angular, d3 and
nvd3. Kubedash's own code is three Go functions besides `main`, and three
JavaScript files. Of the vendored code, the models have what a request or a
click passes through on its way to that code and back (gin's request path and
routing tree; angular-route; the sorting of ng-table and Angular), since there
the behaviour of the program is decided. The rest is either never executed by
Kubedash or is a library whose correctness is not this project's subject.

## Plan

1. Done: all parts of Kubedash's own code that have state, the abstract relay
   and its refinement, gin's request path and routing tree, the router and
   tables of the browser; the theorems above.
2. Done: the safety invariants of all components that the runs check, the
   refinement of `Relay` and of `Exchange`, `PollNoPointTwice` for overlapping
   polls, and what holds of the two instances of a namespace page.
3. What is left is out of the prover's reach: liveness, and induction over the
   routing tree.
