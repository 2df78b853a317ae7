-------------------------- MODULE UtilizationPoll ---------------------------
(***************************************************************************)
(* The data polling of a page with a utilization chart (app/util.js): the  *)
(* poll function that UtilizationViewController puts in $scope and that    *)
(* ChartViewController runs every 30 seconds.  One poll starts, without    *)
(* waiting, a chain usage request -> limit request for memory, another for *)
(* CPU (pollUtilization), and a stats request (pollStats).  All of them    *)
(* share $scope.stamp, the cursor from which new samples are asked for.    *)
(*                                                                         *)
(* Heapster is external.  Its four series (usage and limit of memory and   *)
(* CPU) hold one sample per tick; what a response carries of a sample is   *)
(* its timestamp, which is all that the properties tell apart.  A response *)
(* is computed in one step and delivered in a later one, so it may be      *)
(* stale when its callback runs.  A failure of Heapster reaches the page   *)
(* as an empty 200 response (ApiProxy!FailuresAreMasked); a failure of the *)
(* request itself runs no callback, since none is registered for errors.   *)
(***************************************************************************)
EXTENDS Integers, Sequences, FiniteSets, SequencesExt

CONSTANTS
  Metrics,      \* the two charted metrics, memory and CPU
  Slots,        \* polls in progress at a time are at most one per slot
  MaxTime,      \* bound: the number of samples in a series
  Retention,    \* samples older than this many ticks are gone from Heapster
  MaxLag,       \* how far usage and limit series may be apart, in ticks
  OldestFirst,  \* is the metrics array of a response in ascending time order
  QuietRounds,  \* does no sample arrive while a poll is in progress
  MaxCharts,    \* the ChartViewControllers that the page comes to run
  Lossy         \* can Heapster fail and the network lose requests

ASSUME PollConstants ==
  /\ MaxTime \in Nat
  /\ Retention \in Nat \ {0}
  /\ MaxLag \in Nat
  /\ OldestFirst \in BOOLEAN
  /\ QuietRounds \in BOOLEAN
  /\ MaxCharts \in Nat \ {0}
  /\ Lossy \in BOOLEAN

Kinds == {"usage", "limit"}
Time == 0 .. MaxTime

VARIABLES
  head,       \* the newest timestamp of the usage and of the limit series
  stamp,      \* $scope.stamp; 0 stands for the epoch
  chain,      \* the pollUtilization chain of each slot and metric
  data,       \* $scope.data[idx].values: points <<usage time, limit time>>
  lastLimit,  \* the time of the limit in $scope[lastLimitKey]; 0: none yet
  stats,      \* the pollStats request of each slot
  uptime,     \* when the stats in $scope were computed; 0: none yet
  charts      \* how many ChartViewControllers run on the page's scope

vars == <<head, stamp, chain, data, lastLimit, stats, uptime, charts>>

LaterOf(a, b) == IF a > b THEN a ELSE b

-----------------------------------------------------------------------------
(* Responses *)

\* A batch stands for the samples with timestamps from + 1 .. to.
Batches == [from : Time, to : Time]
NoBatch == [from |-> 0, to |-> 0]
Size(b) == b.to - b.from
\* data.metrics is undefined or has length 0
NoMetrics(b) == Size(b) = 0

\* What Heapster returns of a series for ?start=s.
Since(s, k) ==
  IF head[k] > s
    THEN [from |-> LaterOf(s, head[k] - Retention), to |-> head[k]]
    ELSE NoBatch

\* data.metrics of a response, as timestamps
MetricsOf(b) ==
  [i \in 1 .. Size(b) |-> IF OldestFirst THEN b.from + i ELSE b.to + 1 - i]

\* Faulty variant: push instead of unshift.
Unshifted_Pushed(b) == MetricsOf(b)

\* The array obtained by unshifting the metrics one by one.
Unshifted(b) == Reverse(MetricsOf(b))

\* Faulty variant: the limits are paired in the opposite order.
Points_LimitsReversed(usage, limit) ==
  [i \in 1 .. IF Len(usage) < Len(limit) THEN Len(usage) ELSE Len(limit) |->
     <<usage[i], limit[Len(limit) + 1 - i]>>]

\* The points pushed for two arrays: the loop stops at limit.length and
\* skips the indices at which there is no usage.
Points(usage, limit) ==
  [i \in 1 .. IF Len(usage) < Len(limit) THEN Len(usage) ELSE Len(limit) |->
     <<usage[i], limit[i]>>]

Chains ==
  [pc : {"idle", "usageSent", "usageBack", "limitSent", "limitBack"},
   start : Time,      \* the start parameter of the request in flight
   usage : Batches,   \* the usages kept for the limit callback
   resp : Batches]    \* the response on its way back
IdleChain ==
  [pc |-> "idle", start |-> 0, usage |-> NoBatch, resp |-> NoBatch]

StatsRequests == [pc : {"idle", "sent", "back"}, at : Time]
IdleStats == [pc |-> "idle", at |-> 0]

TypeOK ==
  /\ head \in [Kinds -> Time]
  /\ stamp \in Time
  /\ chain \in [Slots -> [Metrics -> Chains]]
  /\ data \in [Metrics -> Seq(Time \X Time)]
  /\ lastLimit \in [Metrics -> Time]
  /\ stats \in [Slots -> StatsRequests]
  /\ uptime \in Time
  /\ charts \in 1 .. MaxCharts

Init ==
  /\ \E t \in Time : head = [k \in Kinds |-> t]
  /\ stamp = 0
  /\ chain = [r \in Slots |-> [m \in Metrics |-> IdleChain]]
  /\ data = [m \in Metrics |-> <<>>]
  /\ lastLimit = [m \in Metrics |-> 0]
  /\ stats = [r \in Slots |-> IdleStats]
  /\ uptime = 0
  /\ charts = 1

-----------------------------------------------------------------------------
(* The environment *)

Idle(r) ==
  /\ \A m \in Metrics : chain[r][m].pc = "idle"
  /\ stats[r].pc = "idle"

\* Heapster stores the next sample of the series K.
Ingest(K) ==
  /\ K # {}
  /\ QuietRounds => \A r \in Slots : Idle(r)
  /\ \A k \in K : head[k] < MaxTime
  /\ head' = [k \in Kinds |-> IF k \in K THEN head[k] + 1 ELSE head[k]]
  /\ \A j, k \in Kinds : head'[j] - head'[k] <= MaxLag
  /\ UNCHANGED <<stamp, chain, data, lastLimit, stats, uptime, charts>>

ServeUsage(r, m) ==
  /\ chain[r][m].pc = "usageSent"
  /\ chain' = [chain EXCEPT ![r][m] =
       [@ EXCEPT !.pc = "usageBack", !.resp = Since(chain[r][m].start, "usage")]]
  /\ UNCHANGED <<head, stamp, data, lastLimit, stats, uptime, charts>>

ServeLimit(r, m) ==
  /\ chain[r][m].pc = "limitSent"
  /\ chain' = [chain EXCEPT ![r][m] =
       [@ EXCEPT !.pc = "limitBack", !.resp = Since(chain[r][m].start, "limit")]]
  /\ UNCHANGED <<head, stamp, data, lastLimit, stats, uptime, charts>>

\* The stats of a response are those at the time of the newest usage.
ServeStats(r) ==
  /\ stats[r].pc = "sent"
  /\ stats' = [stats EXCEPT ![r] = [pc |-> "back", at |-> head["usage"]]]
  /\ UNCHANGED <<head, stamp, chain, data, lastLimit, uptime, charts>>

\* Heapster fails and the web server replies with 200 and an empty body.
ServeEmpty(r, m) ==
  /\ Lossy
  /\ \/ /\ chain[r][m].pc = "usageSent"
        /\ chain' = [chain EXCEPT ![r][m] = [@ EXCEPT !.pc = "usageBack"]]
     \/ /\ chain[r][m].pc = "limitSent"
        /\ chain' = [chain EXCEPT ![r][m] = [@ EXCEPT !.pc = "limitBack"]]
  /\ UNCHANGED <<head, stamp, data, lastLimit, stats, uptime, charts>>

\* A request or its response is lost, or has an error status: no callback
\* runs and the chain ends.
LoseMetric(r, m) ==
  /\ Lossy
  /\ chain[r][m].pc # "idle"
  /\ chain' = [chain EXCEPT ![r][m] = IdleChain]
  /\ UNCHANGED <<head, stamp, data, lastLimit, stats, uptime, charts>>

\* pollStats: an empty reply and a lost one both leave $scope as it is.
LoseStats(r) ==
  /\ Lossy
  /\ stats[r].pc # "idle"
  /\ stats' = [stats EXCEPT ![r] = IdleStats]
  /\ UNCHANGED <<head, stamp, chain, data, lastLimit, uptime, charts>>

-----------------------------------------------------------------------------
(* The page *)

\* Faulty variant: the interval is gone after the first data.
Poll_Once(r) ==
  /\ Idle(r)
  /\ stamp = 0
  /\ chain' = [chain EXCEPT ![r] =
       [m \in Metrics |-> [IdleChain EXCEPT !.pc = "usageSent", !.start = stamp]]]
  /\ stats' = [stats EXCEPT ![r].pc = "sent"]
  /\ UNCHANGED <<head, stamp, data, lastLimit, uptime, charts>>

\* $scope.poll: both chains ask for what is newer than the cursor.
Poll(r) ==
  /\ Idle(r)
  /\ chain' = [chain EXCEPT ![r] =
       [m \in Metrics |-> [IdleChain EXCEPT !.pc = "usageSent", !.start = stamp]]]
  /\ stats' = [stats EXCEPT ![r].pc = "sent"]
  /\ UNCHANGED <<head, stamp, data, lastLimit, uptime, charts>>

\* The Namespace page's second ChartViewController starts while the first is
\* polling: it sets the cursor back to the epoch and leaves the chart as it
\* is.  From now on both of them poll.
RestartChart ==
  /\ charts < MaxCharts
  /\ charts' = charts + 1
  /\ stamp' = 0
  /\ UNCHANGED <<head, chain, data, lastLimit, stats, uptime>>

\* Faulty variant: the cursor moves as soon as the usages are there.
TakeUsage_MovesCursor(r, m) ==
  /\ chain[r][m].pc = "usageBack"
  /\ ~NoMetrics(chain[r][m].resp)
  /\ stamp' = chain[r][m].resp.to
  /\ chain' = [chain EXCEPT ![r][m] =
       [pc |-> "limitSent", start |-> stamp',
        usage |-> chain[r][m].resp, resp |-> NoBatch]]
  /\ UNCHANGED <<head, data, lastLimit, stats, uptime, charts>>

\* The first callback keeps the usages and asks for the limits, from what is
\* the cursor by now; without metrics it gives up until the next poll.
TakeUsage(r, m) ==
  /\ chain[r][m].pc = "usageBack"
  /\ ~NoMetrics(chain[r][m].resp)
  /\ chain' = [chain EXCEPT ![r][m] =
       [pc |-> "limitSent", start |-> stamp,
        usage |-> chain[r][m].resp, resp |-> NoBatch]]
  /\ UNCHANGED <<head, stamp, data, lastLimit, stats, uptime, charts>>

\* Either callback returns early when there are no metrics.
Postpone(r, m) ==
  /\ chain[r][m].pc \in {"usageBack", "limitBack"}
  /\ NoMetrics(chain[r][m].resp)
  /\ chain' = [chain EXCEPT ![r][m] = IdleChain]
  /\ UNCHANGED <<head, stamp, data, lastLimit, stats, uptime, charts>>

\* Faulty variants: the cursor after a poll is cursor(r, m) instead.
TakeLimit_Cursor(r, m, cursor) ==
  LET usage == Unshifted(chain[r][m].usage)
      limit == Unshifted(chain[r][m].resp)
  IN  /\ chain[r][m].pc = "limitBack"
      /\ ~NoMetrics(chain[r][m].resp)
      /\ lastLimit' = [lastLimit EXCEPT ![m] = limit[1]]
      /\ data' = [data EXCEPT ![m] = @ \o Points(usage, limit)]
      /\ stamp' = cursor
      /\ chain' = [chain EXCEPT ![r][m] = IdleChain]
      /\ UNCHANGED <<head, stats, uptime, charts>>

TakeLimit_KeepsCursor(r, m) == TakeLimit_Cursor(r, m, stamp)

TakeLimit_CursorOffByOne(r, m) ==
  TakeLimit_Cursor(r, m, LaterOf(chain[r][m].usage.to, chain[r][m].resp.to) + 1)

\* The second callback shows the limit at index 0 as the last one, pushes
\* the points and moves the cursor to the later of the two responses.
TakeLimit(r, m) ==
  LET usage == Unshifted(chain[r][m].usage)
      limit == Unshifted(chain[r][m].resp)
  IN  /\ chain[r][m].pc = "limitBack"
      /\ ~NoMetrics(chain[r][m].resp)
      /\ lastLimit' = [lastLimit EXCEPT ![m] = limit[1]]
      /\ data' = [data EXCEPT ![m] = @ \o Points(usage, limit)]
      /\ stamp' = LaterOf(chain[r][m].usage.to, chain[r][m].resp.to)
      /\ chain' = [chain EXCEPT ![r][m] = IdleChain]
      /\ UNCHANGED <<head, stats, uptime, charts>>

\* Faulty variant: stats that are there are not replaced.
TakeStats_Once(r) ==
  /\ stats[r].pc = "back"
  /\ uptime' = IF uptime = 0 THEN stats[r].at ELSE uptime
  /\ stats' = [stats EXCEPT ![r] = IdleStats]
  /\ UNCHANGED <<head, stamp, chain, data, lastLimit, charts>>

TakeStats(r) ==
  /\ stats[r].pc = "back"
  /\ uptime' = stats[r].at
  /\ stats' = [stats EXCEPT ![r] = IdleStats]
  /\ UNCHANGED <<head, stamp, chain, data, lastLimit, charts>>

Next ==
  \/ \E K \in SUBSET Kinds : Ingest(K)
  \/ RestartChart
  \/ \E r \in Slots :
       \/ Poll(r)
       \/ ServeStats(r)
       \/ TakeStats(r)
       \/ LoseStats(r)
       \/ \E m \in Metrics :
            \/ ServeUsage(r, m)
            \/ TakeUsage(r, m)
            \/ ServeLimit(r, m)
            \/ TakeLimit(r, m)
            \/ Postpone(r, m)
            \/ ServeEmpty(r, m)
            \/ LoseMetric(r, m)

Spec == Init /\ [][Next]_vars

\* A page keeps polling and Heapster keeps sampling.  The network loses
\* requests, but not the same kind of request for ever (fair loss).
Fairness ==
  /\ WF_vars(\E K \in SUBSET Kinds : Ingest(K))
  /\ \A r \in Slots :
       /\ WF_vars(Poll(r))
       /\ SF_vars(ServeStats(r))
       /\ SF_vars(TakeStats(r))
       /\ \A m \in Metrics :
            /\ SF_vars(ServeUsage(r, m))
            /\ SF_vars(TakeUsage(r, m))
            /\ SF_vars(ServeLimit(r, m))
            /\ SF_vars(TakeLimit(r, m))
            /\ WF_vars(Postpone(r, m))

FairSpec == Spec /\ Fairness

-----------------------------------------------------------------------------
(* Properties *)

Charted(m) == {data[m][i][1] : i \in 1 .. Len(data[m])}

\* The samples up to the cursor that Heapster kept when the cursor got there
RecentTimes == {t \in 1 .. stamp : t > stamp - Retention}

\* Every utilization in a chart divides a usage by the limit of the same
\* time, although the two arrays come from two requests and are paired by
\* index only.
PairsAligned ==
  \A m \in Metrics : \A i \in 1 .. Len(data[m]) : data[m][i][1] = data[m][i][2]

\* No sample is charted more often than charting was started from the epoch
\* times the polls that overlap, so once if the page has one ChartViewController
\* and is polled slowly: the cursor keeps later polls from fetching it again.
NoPointTwice ==
  \A m \in Metrics : \A t \in Time :
    Cardinality({i \in 1 .. Len(data[m]) : data[m][i][1] = t})
      <= charts * Cardinality(Slots)

\* The cursor never passes a recent sample that neither chart shows, whatever
\* requests fail and in whatever order the callbacks of the two chains run.
NothingSkippedByBoth ==
  \A t \in RecentTimes : \E m \in Metrics : t \in Charted(m)

\* Between polls, each chart shows every recent sample up to the cursor.
NothingSkipped ==
  (\A r \in Slots : Idle(r)) =>
    \A m \in Metrics : RecentTimes \subseteq Charted(m)

\* The points of $scope.data are in ascending time order.
ChartTimeAscending ==
  \A m \in Metrics : \A i, j \in 1 .. Len(data[m]) :
    i < j => data[m][i][1] < data[m][j][1]

\* The limit shown in the information box is the newest one charted.
LastLimitIsNewest ==
  \A m \in Metrics : \A i \in 1 .. Len(data[m]) : data[m][i][2] <= lastLimit[m]

\* The cursor only ever moves to a time that is on a chart: no poll, however
\* it overlaps with others, moves it without charting what it moves it to.
CursorIsCharted ==
  stamp > 0 =>
    \E m \in Metrics : \E i \in 1 .. Len(data[m]) :
      stamp = LaterOf(data[m][i][1], data[m][i][2])

\* The cursor catches up with Heapster and stays there, although a stale
\* response can move it backwards on the way.
CursorCatchesUp == <>[](stamp = LaterOf(head["usage"], head["limit"]))

\* The stats shown are eventually those of the newest sample.
StatsCatchUp == <>[](uptime = head["usage"])

=============================================================================
