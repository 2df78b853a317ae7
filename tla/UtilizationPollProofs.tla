----------------------- MODULE UtilizationPollProofs ------------------------
(***************************************************************************)
(* Safety of chart polling for every number of metrics, samples and, unless *)
(* stated, overlapping polls: the types, and that the cursor is always a   *)
(* charted time.  In quiet rounds: every utilization pairs a usage with the *)
(* limit of its time (QuietInv for one chart and either order of responses, *)
(* NewestInv for any number of charts and ascending responses), the limit  *)
(* shown is the newest, and no recent sample is skipped by both charts; no *)
(* sample is charted more often than the charts and the polls that can     *)
(* overlap account for, which bounds the length of a chart (SharedInv).    *)
(***************************************************************************)
EXTENDS UtilizationPoll, TLAPS, FiniteSetTheorems, SequenceTheorems

-----------------------------------------------------------------------------
(* Operators *)

\* What Heapster returns is a batch of the series, empty or ending at its
\* newest sample.
LEMMA SinceType ==
  ASSUME NEW s \in Time, NEW k \in Kinds, head \in [Kinds -> Time]
  PROVE  /\ Since(s, k) \in Batches
         /\ Since(s, k).from <= Since(s, k).to
BY PollConstants DEF Since, Batches, NoBatch, LaterOf, Time

\* The array that a callback builds from a non-empty batch by unshifting.
LEMMA UnshiftedType ==
  ASSUME NEW b \in Batches, b.from < b.to
  PROVE  /\ Unshifted(b) \in Seq(Time)
         /\ Len(Unshifted(b)) = b.to - b.from
         /\ OldestFirst => Unshifted(b)[1] = b.to
         /\ Unshifted(b)[1] \in Time
<1> DEFINE n == b.to - b.from
           ms == [i \in 1 .. n |-> IF OldestFirst THEN b.from + i ELSE b.to + 1 - i]
<1>1. n \in Nat \ {0} /\ \A i \in 1 .. n : b.from + i \in Time /\ b.to + 1 - i \in Time
  BY PollConstants DEF Batches, Time
<1>2. ms \in Seq(Time) /\ Len(ms) = n
  BY <1>1
<1>3. MetricsOf(b) = ms
  BY DEF MetricsOf, Size
<1>4. Unshifted(b) = [i \in 1 .. n |-> ms[(n - i) + 1]]
  BY <1>2, <1>3 DEF Unshifted, Reverse
<1>5. \A i \in 1 .. n : ms[(n - i) + 1] \in Time
  BY <1>1
<1>6. Unshifted(b) \in Seq(Time) /\ Len(Unshifted(b)) = n
  <2> HIDE DEF n, ms
  <2> QED
    BY <1>1, <1>4, <1>5
<1>7. Unshifted(b)[1] = ms[n] /\ ms[n] \in Time
  BY <1>1, <1>2, <1>4
<1>8. OldestFirst => ms[n] = b.to
  BY <1>1 DEF Batches, Time
<1> QED
  BY <1>6, <1>7, <1>8

\* The points pushed for two arrays of at least one element: as many as the
\* shorter array has, the first of them made of the first elements.
LEMMA PointsType ==
  ASSUME NEW u \in Seq(Time), NEW l \in Seq(Time), Len(u) > 0, Len(l) > 0
  PROVE  /\ Points(u, l) \in Seq(Time \X Time)
         /\ Len(Points(u, l)) > 0
         /\ Points(u, l)[1] = <<u[1], l[1]>>
<1> DEFINE n == IF Len(u) < Len(l) THEN Len(u) ELSE Len(l)
<1>1. n \in Nat \ {0} /\ n <= Len(u) /\ n <= Len(l)
  OBVIOUS
<1>2. \A i \in 1 .. n : u[i] \in Time /\ l[i] \in Time
  BY <1>1
<1>3. Points(u, l) = [i \in 1 .. n |-> <<u[i], l[i]>>]
  BY DEF Points
<1> QED
  BY <1>1, <1>2, <1>3

-----------------------------------------------------------------------------
(* Types, and that the cursor is a charted time *)

\* Batches do not end before they begin, and a chain that waits for limits
\* holds at least one usage: the first callback gives up without.
WellFormed(c) ==
  /\ c.usage.from <= c.usage.to
  /\ c.resp.from <= c.resp.to
  /\ c.pc \in {"limitSent", "limitBack"} => c.usage.from < c.usage.to

ChainInv == \A r \in Slots, m \in Metrics : WellFormed(chain[r][m])

\* The initial state is well typed.
LEMMA InitTypes == Init => TypeOK /\ ChainInv
BY PollConstants
DEF Init, TypeOK, ChainInv, WellFormed, IdleChain, NoBatch, Chains, Batches, IdleStats,
    StatsRequests, Time, Kinds

\* The second callback finds both arrays non-empty: the points it pushes are
\* well typed, and the first of them has the last elements of both responses.
LEMMA TakeLimitPoints ==
  ASSUME TypeOK, ChainInv, NEW r \in Slots, NEW m \in Metrics, TakeLimit(r, m)
  PROVE  LET u == Unshifted(chain[r][m].usage)
             l == Unshifted(chain[r][m].resp)
         IN  /\ l[1] \in Time
             /\ Points(u, l) \in Seq(Time \X Time)
             /\ Len(Points(u, l)) > 0
             /\ Points(u, l)[1] = <<u[1], l[1]>>
             /\ OldestFirst =>
                  u[1] = chain[r][m].usage.to /\ l[1] = chain[r][m].resp.to
<1> DEFINE bu == chain[r][m].usage
           bl == chain[r][m].resp
<1>1. bu \in Batches /\ bl \in Batches
  BY DEF TypeOK, Chains
<1>2. bu.from < bu.to /\ bl.from < bl.to
  <2>1. bu.from < bu.to
    BY DEF ChainInv, WellFormed, TakeLimit
  <2>2. bl.from <= bl.to /\ bl.to - bl.from # 0
    BY DEF ChainInv, WellFormed, TakeLimit, NoMetrics, Size
  <2> QED
    BY <1>1, <2>1, <2>2 DEF Batches, Time
<1> HIDE DEF bu, bl
<1>3. /\ Unshifted(bu) \in Seq(Time)
      /\ Len(Unshifted(bu)) = bu.to - bu.from
      /\ OldestFirst => Unshifted(bu)[1] = bu.to
  BY <1>1, <1>2, UnshiftedType
<1>4. /\ Unshifted(bl) \in Seq(Time)
      /\ Len(Unshifted(bl)) = bl.to - bl.from
      /\ OldestFirst => Unshifted(bl)[1] = bl.to
      /\ Unshifted(bl)[1] \in Time
  BY <1>1, <1>2, UnshiftedType
<1>5. Len(Unshifted(bu)) > 0 /\ Len(Unshifted(bl)) > 0
  BY <1>1, <1>2, <1>3, <1>4 DEF Batches, Time
<1> QED
  BY <1>3, <1>4, <1>5, PointsType DEF bu, bl

\* Replacing one chain by a well-formed one keeps all of them so.
LEMMA ChainUpdate ==
  ASSUME TypeOK, ChainInv, NEW r \in Slots, NEW m \in Metrics,
         NEW c \in Chains, WellFormed(c),
         chain' = [chain EXCEPT ![r][m] = c]
  PROVE  chain' \in [Slots -> [Metrics -> Chains]] /\ ChainInv'
<1>1. chain' \in [Slots -> [Metrics -> Chains]]
  BY DEF TypeOK
<1>2. ASSUME NEW q \in Slots, NEW n \in Metrics
      PROVE  WellFormed(chain'[q][n])
  <2>1. chain'[q][n] = IF q = r /\ n = m THEN c ELSE chain[q][n]
    BY DEF TypeOK
  <2> QED
    BY <2>1 DEF ChainInv
<1> QED
  BY <1>1, <1>2 DEF ChainInv, WellFormed

\* An idle chain is well formed.
LEMMA IdleChainOK == IdleChain \in Chains /\ WellFormed(IdleChain)
BY PollConstants DEF IdleChain, Chains, WellFormed, NoBatch, Batches, Time

\* No step breaks the types or the shape of the chains.
LEMMA StepTypes ==
  ASSUME TypeOK, ChainInv, [Next]_vars
  PROVE  TypeOK' /\ ChainInv'
<1> USE PollConstants
<1>1. ASSUME NEW K \in SUBSET Kinds, Ingest(K)
      PROVE  TypeOK' /\ ChainInv'
  <2>1. head' \in [Kinds -> Time]
    BY <1>1 DEF TypeOK, Ingest, Time
  <2> QED
    BY <1>1, <2>1 DEF TypeOK, ChainInv, WellFormed, Ingest
<1>2. ASSUME NEW r \in Slots, Poll(r)
      PROVE  TypeOK' /\ ChainInv'
  <2> DEFINE c == [IdleChain EXCEPT !.pc = "usageSent", !.start = stamp]
  <2>1. c \in Chains /\ WellFormed(c)
    <3>1. stamp \in Time
      BY DEF TypeOK
    <3> QED
      BY <3>1, IdleChainOK DEF IdleChain, Chains, WellFormed
  <2> HIDE DEF c
  <2>2. chain' = [chain EXCEPT ![r] = [m \in Metrics |-> c]]
    BY <1>2 DEF Poll, c
  <2>3. chain' \in [Slots -> [Metrics -> Chains]] /\ ChainInv'
    BY <2>1, <2>2 DEF TypeOK, ChainInv, WellFormed
  <2>4. stats' \in [Slots -> StatsRequests]
    BY <1>2 DEF Poll, TypeOK, StatsRequests
  <2> QED
    BY <1>2, <2>3, <2>4 DEF TypeOK, Poll
<1>3. ASSUME NEW r \in Slots, ServeStats(r) \/ TakeStats(r) \/ LoseStats(r)
      PROVE  TypeOK' /\ ChainInv'
  <2>1. PICK q \in StatsRequests : stats' = [stats EXCEPT ![r] = q]
    <3>1. head["usage"] \in Time /\ 0 \in Time
      BY DEF TypeOK, Kinds, Time
    <3> QED
      BY <1>3, <3>1 DEF ServeStats, TakeStats, LoseStats, IdleStats, StatsRequests
  <2>2. uptime' \in Time
    BY <1>3 DEF TypeOK, ServeStats, TakeStats, LoseStats, StatsRequests
  <2>3. UNCHANGED <<head, stamp, chain, data, lastLimit, charts>>
    BY <1>3 DEF ServeStats, TakeStats, LoseStats
  <2> QED
    BY <2>1, <2>2, <2>3 DEF TypeOK, ChainInv, WellFormed
<1>4. ASSUME NEW r \in Slots, NEW m \in Metrics,
             \/ ServeUsage(r, m) \/ ServeLimit(r, m) \/ ServeEmpty(r, m)
             \/ TakeUsage(r, m) \/ Postpone(r, m) \/ LoseMetric(r, m)
      PROVE  TypeOK' /\ ChainInv'
  <2>1. chain[r][m] \in Chains /\ WellFormed(chain[r][m])
    BY DEF TypeOK, ChainInv
  <2>2. ASSUME NEW k \in Kinds
        PROVE  LET b == Since(chain[r][m].start, k)
               IN  b \in Batches /\ b.from <= b.to
    BY <2>1, SinceType DEF TypeOK, Chains
  <2>3. \E c \in Chains : WellFormed(c) /\ chain' = [chain EXCEPT ![r][m] = c]
    <3>1. CASE ServeUsage(r, m)
      <4> DEFINE b == Since(chain[r][m].start, "usage")
      <4>1. b \in Batches /\ b.from <= b.to
        BY <2>2 DEF Kinds
      <4> HIDE DEF b
      <4> DEFINE c == [chain[r][m] EXCEPT !.pc = "usageBack", !.resp = b]
      <4>2. c \in Chains /\ WellFormed(c)
        BY <2>1, <4>1 DEF Chains, WellFormed
      <4>3. chain' = [chain EXCEPT ![r][m] = c]
        BY <3>1 DEF ServeUsage, b
      <4> QED
        BY <4>2, <4>3
    <3>2. CASE ServeLimit(r, m)
      <4> DEFINE b == Since(chain[r][m].start, "limit")
      <4>1. b \in Batches /\ b.from <= b.to
        BY <2>2 DEF Kinds
      <4> HIDE DEF b
      <4> DEFINE c == [chain[r][m] EXCEPT !.pc = "limitBack", !.resp = b]
      <4>2. c \in Chains /\ WellFormed(c)
        BY <2>1, <3>2, <4>1 DEF Chains, WellFormed, ServeLimit
      <4>3. chain' = [chain EXCEPT ![r][m] = c]
        BY <3>2 DEF ServeLimit, b
      <4> QED
        BY <4>2, <4>3
    <3>3. CASE ServeEmpty(r, m)
      <4>1. PICK q \in {"usageBack", "limitBack"} :
              /\ chain' = [chain EXCEPT ![r][m] = [chain[r][m] EXCEPT !.pc = q]]
              /\ q = "limitBack" => chain[r][m].pc = "limitSent"
        BY <3>3 DEF ServeEmpty
      <4>2. [chain[r][m] EXCEPT !.pc = q] \in Chains
        BY <2>1 DEF Chains
      <4>3. WellFormed([chain[r][m] EXCEPT !.pc = q])
        BY <2>1, <4>1 DEF Chains, WellFormed
      <4> QED
        BY <4>1, <4>2, <4>3
    <3>4. CASE TakeUsage(r, m)
      <4> DEFINE c == [pc |-> "limitSent", start |-> stamp,
                       usage |-> chain[r][m].resp, resp |-> NoBatch]
      <4>1. c \in Chains /\ WellFormed(c)
        BY <2>1, <3>4 DEF TypeOK, TakeUsage, NoMetrics, Size, Chains, WellFormed,
                          NoBatch, Batches, Time
      <4> QED
        BY <3>4, <4>1 DEF TakeUsage
    <3>5. CASE Postpone(r, m) \/ LoseMetric(r, m)
      BY <3>5, IdleChainOK DEF Postpone, LoseMetric
    <3> QED
      BY <1>4, <3>1, <3>2, <3>3, <3>4, <3>5
  <2>4. chain' \in [Slots -> [Metrics -> Chains]] /\ ChainInv'
    BY <2>3, ChainUpdate
  <2> QED
    BY <1>4, <2>4 DEF TypeOK, ServeUsage, ServeLimit, ServeEmpty, TakeUsage,
                      Postpone, LoseMetric
<1>5. ASSUME NEW r \in Slots, NEW m \in Metrics, TakeLimit(r, m)
      PROVE  TypeOK' /\ ChainInv'
  <2>1. PICK ps, t : /\ ps \in Seq(Time \X Time) /\ t \in Time
                     /\ lastLimit' = [lastLimit EXCEPT ![m] = t]
                     /\ data' = [data EXCEPT ![m] = @ \o ps]
    BY <1>5, TakeLimitPoints DEF TakeLimit
  <2>2. data' \in [Metrics -> Seq(Time \X Time)] /\ lastLimit' \in [Metrics -> Time]
    BY <2>1 DEF TypeOK
  <2>3. stamp' \in Time
    BY <1>5 DEF TypeOK, TakeLimit, LaterOf, Chains, Batches
  <2>4. chain' \in [Slots -> [Metrics -> Chains]] /\ ChainInv'
    BY <1>5, IdleChainOK, ChainUpdate DEF TakeLimit
  <2> QED
    BY <1>5, <2>2, <2>3, <2>4 DEF TypeOK, TakeLimit
<1>6. CASE UNCHANGED vars
  BY <1>6 DEF vars, TypeOK, ChainInv, WellFormed
<1>7. CASE RestartChart
  BY <1>7 DEF RestartChart, TypeOK, ChainInv, WellFormed, Time
<1> QED
  BY <1>1, <1>2, <1>3, <1>4, <1>5, <1>6, <1>7 DEF Next

\* The variables always have their types.
THEOREM PollTypeOK == Spec => [](TypeOK /\ ChainInv)
BY InitTypes, StepTypes, PTL DEF Spec

\* Only the second callback moves the cursor on or touches the charts.
LEMMA OnlyTakeLimitCharts ==
  ASSUME [Next]_vars,
         ~ \E r \in Slots, m \in Metrics : TakeLimit(r, m)
  PROVE  UNCHANGED <<data, lastLimit>> /\ stamp' \in {stamp, 0}
<1>1. ASSUME NEW r \in Slots, NEW m \in Metrics,
             \/ ServeUsage(r, m) \/ ServeLimit(r, m) \/ ServeEmpty(r, m)
             \/ TakeUsage(r, m) \/ Postpone(r, m) \/ LoseMetric(r, m)
      PROVE  UNCHANGED <<data, lastLimit, stamp>>
  BY <1>1 DEF ServeUsage, TakeUsage, ServeLimit, Postpone, ServeEmpty, LoseMetric
<1>2. ASSUME NEW r \in Slots, Poll(r) \/ ServeStats(r) \/ TakeStats(r) \/ LoseStats(r)
      PROVE  UNCHANGED <<data, lastLimit, stamp>>
  BY <1>2 DEF Poll, ServeStats, TakeStats, LoseStats
<1>3. ASSUME NEW K \in SUBSET Kinds, Ingest(K)
      PROVE  UNCHANGED <<data, lastLimit, stamp>>
  BY <1>3 DEF Ingest
<1>4. CASE RestartChart
  BY <1>4 DEF RestartChart
<1>5. CASE UNCHANGED vars
  BY <1>5 DEF vars
<1> QED
  BY <1>1, <1>2, <1>3, <1>4, <1>5 DEF Next

\* If responses are in ascending order, the cursor is always the time of some
\* charted point, however many polls overlap, whatever is lost, and although
\* a stale response may move it backwards.
THEOREM PollCursorIsCharted ==
  ASSUME OldestFirst
  PROVE  Spec => []CursorIsCharted
<1>1. Init => CursorIsCharted
  BY DEF Init, CursorIsCharted
<1>2. ASSUME TypeOK, ChainInv, CursorIsCharted, [Next]_vars
      PROVE  CursorIsCharted'
  <2>1. ASSUME NEW r \in Slots, NEW m \in Metrics, TakeLimit(r, m)
        PROVE  CursorIsCharted'
    <3> DEFINE ps == Points(Unshifted(chain[r][m].usage), Unshifted(chain[r][m].resp))
               at == Len(data[m]) + 1
    <3>1. /\ ps \in Seq(Time \X Time)
          /\ Len(ps) > 0
          /\ ps[1] = <<chain[r][m].usage.to, chain[r][m].resp.to>>
      BY <1>2, <2>1, TakeLimitPoints
    <3>2. /\ data' = [data EXCEPT ![m] = data[m] \o ps]
          /\ stamp' = LaterOf(chain[r][m].usage.to, chain[r][m].resp.to)
      BY <2>1 DEF TakeLimit
    <3> HIDE DEF ps
    <3>3. data[m] \in Seq(Time \X Time) /\ data'[m] = data[m] \o ps
      BY <1>2, <3>2 DEF TypeOK
    <3>4. at \in 1 .. Len(data'[m]) /\ data'[m][at] = ps[1]
      BY <3>1, <3>3
    <3>5. stamp' = LaterOf(data'[m][at][1], data'[m][at][2])
      BY <3>1, <3>2, <3>4
    <3> QED
      BY <3>4, <3>5 DEF CursorIsCharted
  <2>2. CASE ~ \E r \in Slots, m \in Metrics : TakeLimit(r, m)
    BY <1>2, <2>2, OnlyTakeLimitCharts DEF CursorIsCharted
  <2> QED
    BY <2>1, <2>2
<1> QED
  BY <1>1, <1>2, PollTypeOK, PTL DEF Spec

-----------------------------------------------------------------------------
(* Quiet rounds: no sample arrives while a poll is in progress, and the two *)
(* series have the same newest sample.                                      *)

\* What a chain may have in hand in a quiet round: as long as nobody has
\* moved the cursor since the poll, usages and limits are asked for from the
\* same time; if somebody has, the cursor is at the newest sample and there
\* are no limits to be had.
QuietChain(c) ==
  /\ c.pc \in {"usageSent", "limitSent"} => c.resp = NoBatch
  /\ c.pc = "usageSent" => stamp = head["usage"] \/ c.start = stamp
  /\ c.pc = "usageBack" =>
       \/ NoMetrics(c.resp)
       \/ /\ c.resp.to = head["usage"]
          /\ stamp = head["usage"] \/ c.resp = Since(stamp, "usage")
  /\ c.pc \in {"limitSent", "limitBack"} => c.usage.to = head["usage"]
  /\ c.pc = "limitSent" =>
       c.start = head["usage"] \/ c.usage = Since(c.start, "usage")
  /\ c.pc = "limitBack" => NoMetrics(c.resp) \/ c.resp = c.usage

QuietInv ==
  /\ head["usage"] = head["limit"]
  /\ \A r \in Slots, m \in Metrics : QuietChain(chain[r][m])
  /\ PairsAligned

\* A chain other than the one that is replaced keeps what it has.
LEMMA QuietUpdate ==
  ASSUME TypeOK, QuietInv, NEW r \in Slots, NEW m \in Metrics, NEW c,
         QuietChain(c), chain' = [chain EXCEPT ![r][m] = c],
         UNCHANGED <<head, stamp, data>>
  PROVE  QuietInv'
<1>1. ASSUME NEW q \in Slots, NEW n \in Metrics
      PROVE  QuietChain(chain[q][n])'
  <2>1. chain'[q][n] = IF q = r /\ n = m THEN c ELSE chain[q][n]
    BY DEF TypeOK
  <2>2. QuietChain(chain'[q][n])
    BY <2>1 DEF QuietInv
  <2> QED
    BY <2>2 DEF QuietChain, Since
<1> QED
  BY <1>1 DEF QuietInv, PairsAligned

\* Points made of two equal arrays pair equal times.
LEMMA PointsOfEqualArrays ==
  ASSUME NEW u \in Seq(Time), Len(u) > 0
  PROVE  \A i \in 1 .. Len(Points(u, u)) : Points(u, u)[i][1] = Points(u, u)[i][2]
<1>1. Points(u, u) = [i \in 1 .. Len(u) |-> <<u[i], u[i]>>]
  BY DEF Points
<1>2. Len(Points(u, u)) = Len(u)
  BY <1>1
<1> QED
  BY <1>1, <1>2

\* Every step of a quiet round keeps the quiet invariant.
LEMMA QuietStep ==
  ASSUME QuietRounds, MaxLag = 0, MaxCharts = 1, TypeOK, ChainInv, QuietInv,
         [Next]_vars
  PROVE  QuietInv'
<1> USE PollConstants
<1>1. ASSUME NEW K \in SUBSET Kinds, Ingest(K)
      PROVE  QuietInv'
  <2>1. \A r \in Slots, m \in Metrics : chain'[r][m].pc = "idle"
    BY <1>1 DEF Ingest, Idle
  <2>2. head'["usage"] = head'["limit"]
    <3>1. head'["usage"] \in Int /\ head'["limit"] \in Int
      BY <1>1 DEF Ingest, TypeOK, Kinds, Time
    <3>2. head'["usage"] - head'["limit"] <= 0 /\ head'["limit"] - head'["usage"] <= 0
      BY <1>1 DEF Ingest, Kinds
    <3> QED
      BY <3>1, <3>2
  <2>3. \A r \in Slots, m \in Metrics : QuietChain(chain[r][m])'
    BY <2>1 DEF QuietChain
  <2> QED
    BY <1>1, <2>2, <2>3 DEF QuietInv, Ingest, PairsAligned
<1>2. ASSUME NEW r \in Slots, Poll(r)
      PROVE  QuietInv'
  <2> DEFINE c == [IdleChain EXCEPT !.pc = "usageSent", !.start = stamp]
  <2>1. c.pc = "usageSent" /\ c.start = stamp /\ c.resp = NoBatch
    BY DEF IdleChain
  <2> HIDE DEF c
  <2>2. chain' = [chain EXCEPT ![r] = [m \in Metrics |-> c]]
    BY <1>2 DEF Poll, c
  <2>3. UNCHANGED <<head, stamp, data>>
    BY <1>2 DEF Poll
  <2>4. ASSUME NEW q \in Slots, NEW n \in Metrics
        PROVE  QuietChain(chain[q][n])'
    <3>1. chain'[q][n] = IF q = r THEN c ELSE chain[q][n]
      BY <2>2 DEF TypeOK
    <3>2. QuietChain(c)
      BY <2>1 DEF QuietChain
    <3>3. QuietChain(chain'[q][n])
      BY <3>1, <3>2 DEF QuietInv
    <3> QED
      BY <2>3, <3>3 DEF QuietChain, Since
  <2> QED
    BY <2>3, <2>4 DEF QuietInv, PairsAligned
<1>3. ASSUME NEW r \in Slots, ServeStats(r) \/ TakeStats(r) \/ LoseStats(r)
      PROVE  QuietInv'
  BY <1>3 DEF ServeStats, TakeStats, LoseStats, QuietInv, QuietChain, Since,
              PairsAligned
<1>4. ASSUME NEW r \in Slots, NEW m \in Metrics,
             \/ ServeUsage(r, m) \/ ServeLimit(r, m) \/ ServeEmpty(r, m)
             \/ TakeUsage(r, m) \/ Postpone(r, m) \/ LoseMetric(r, m)
      PROVE  QuietInv'
  <2>1. chain[r][m] \in Chains /\ QuietChain(chain[r][m])
    BY DEF TypeOK, QuietInv
  <2>2. stamp \in Time /\ head["usage"] \in Time /\ head["limit"] = head["usage"]
    BY DEF TypeOK, QuietInv, Kinds
  <2>3. NoMetrics(NoBatch)
    BY DEF NoMetrics, Size, NoBatch
  <2>4. \E c : QuietChain(c) /\ chain' = [chain EXCEPT ![r][m] = c]
    <3>1. CASE ServeUsage(r, m)
      <4> DEFINE b == Since(chain[r][m].start, "usage")
                 c == [chain[r][m] EXCEPT !.pc = "usageBack", !.resp = b]
      <4>1. b = NoBatch \/ b.to = head["usage"]
        BY DEF Since
      <4>2. stamp = head["usage"] \/ b = Since(stamp, "usage")
        BY <2>1, <3>1 DEF QuietChain, ServeUsage
      <4>3. c.pc = "usageBack" /\ c.resp = b
        BY <2>1 DEF Chains
      <4>4. chain' = [chain EXCEPT ![r][m] = c]
        BY <3>1 DEF ServeUsage
      <4> HIDE DEF b, c
      <4>5. QuietChain(c)
        BY <2>3, <4>1, <4>2, <4>3 DEF QuietChain
      <4> QED
        BY <4>4, <4>5
    <3>2. CASE ServeLimit(r, m)
      <4> DEFINE b == Since(chain[r][m].start, "limit")
                 c == [chain[r][m] EXCEPT !.pc = "limitBack", !.resp = b]
      <4>1. b = NoBatch \/ b = chain[r][m].usage
        BY <2>1, <2>2, <3>2 DEF QuietChain, ServeLimit, Since, Time
      <4>2. chain[r][m].usage.to = head["usage"]
        BY <2>1, <3>2 DEF QuietChain, ServeLimit
      <4>3. c.pc = "limitBack" /\ c.resp = b /\ c.usage = chain[r][m].usage
        BY <2>1 DEF Chains
      <4>4. chain' = [chain EXCEPT ![r][m] = c]
        BY <3>2 DEF ServeLimit
      <4> HIDE DEF b, c
      <4>5. QuietChain(c)
        BY <2>3, <4>1, <4>2, <4>3 DEF QuietChain
      <4> QED
        BY <4>4, <4>5
    <3>3. CASE ServeEmpty(r, m)
      <4>1. PICK q \in {"usageBack", "limitBack"} :
              /\ chain' = [chain EXCEPT ![r][m] = [chain[r][m] EXCEPT !.pc = q]]
              /\ chain[r][m].pc = IF q = "usageBack" THEN "usageSent" ELSE "limitSent"
        BY <3>3 DEF ServeEmpty
      <4> DEFINE c == [chain[r][m] EXCEPT !.pc = q]
      <4>2. c.pc = q /\ c.resp = chain[r][m].resp /\ c.usage = chain[r][m].usage
        BY <2>1 DEF Chains
      <4> HIDE DEF c
      <4>3. QuietChain(c)
        BY <2>1, <2>3, <4>1, <4>2 DEF QuietChain
      <4> QED
        BY <4>1, <4>3 DEF c
    <3>4. CASE TakeUsage(r, m)
      <4> DEFINE c == [pc |-> "limitSent", start |-> stamp,
                       usage |-> chain[r][m].resp, resp |-> NoBatch]
      <4>1. QuietChain(c)
        BY <2>1, <3>4 DEF TakeUsage, QuietChain
      <4> QED
        BY <3>4, <4>1 DEF TakeUsage
    <3>5. CASE Postpone(r, m) \/ LoseMetric(r, m)
      <4>1. QuietChain(IdleChain)
        BY DEF IdleChain, QuietChain
      <4> QED
        BY <3>5, <4>1 DEF Postpone, LoseMetric
    <3> QED
      BY <1>4, <3>1, <3>2, <3>3, <3>4, <3>5
  <2>5. UNCHANGED <<head, stamp, data>>
    BY <1>4 DEF ServeUsage, ServeLimit, ServeEmpty, TakeUsage, Postpone, LoseMetric
  <2> QED
    BY <2>4, <2>5, QuietUpdate
<1>5. ASSUME NEW r \in Slots, NEW m \in Metrics, TakeLimit(r, m)
      PROVE  QuietInv'
  <2> DEFINE b == chain[r][m].usage
             u == Unshifted(b)
  <2>1. chain[r][m] \in Chains /\ QuietChain(chain[r][m]) /\ WellFormed(chain[r][m])
    BY DEF TypeOK, QuietInv, ChainInv
  <2>2. b \in Batches /\ b.from < b.to /\ b.to = head["usage"] /\ chain[r][m].resp = b
    BY <1>5, <2>1 DEF TakeLimit, QuietChain, WellFormed, Chains
  <2>3. stamp' = head["usage"] /\ head' = head
    BY <1>5, <2>2 DEF TakeLimit, LaterOf
  <2>4. u \in Seq(Time) /\ Len(u) > 0
    <3>1. u \in Seq(Time) /\ Len(u) = b.to - b.from
      BY <2>2, UnshiftedType
    <3> QED
      BY <2>2, <3>1 DEF Batches, Time
  <2>5. data' = [data EXCEPT ![m] = data[m] \o Points(u, u)]
    BY <1>5, <2>2 DEF TakeLimit
  <2>6. Points(u, u) \in Seq(Time \X Time)
    BY <2>4, PointsType
  <2>7. \A i \in 1 .. Len(Points(u, u)) : Points(u, u)[i][1] = Points(u, u)[i][2]
    BY <2>4, PointsOfEqualArrays
  <2>8. PairsAligned'
    <3> DEFINE ps == Points(u, u)
    <3> HIDE DEF ps
    <3>1. ASSUME NEW n \in Metrics, NEW i \in 1 .. Len(data'[n])
          PROVE  data'[n][i][1] = data'[n][i][2]
      <4>1. CASE n # m
        BY <2>5, <3>1, <4>1 DEF TypeOK, QuietInv, PairsAligned
      <4>2. CASE n = m
        <5>1. data[m] \in Seq(Time \X Time) /\ ps \in Seq(Time \X Time)
          BY <2>6 DEF TypeOK, ps
        <5>2. data'[m] = data[m] \o ps
          BY <2>5 DEF TypeOK, ps
        <5>3. CASE i <= Len(data[m])
          BY <3>1, <4>2, <5>1, <5>2, <5>3 DEF QuietInv, PairsAligned
        <5>4. CASE i > Len(data[m])
          <6>1. i - Len(data[m]) \in 1 .. Len(ps) /\ data'[m][i] = ps[i - Len(data[m])]
            BY <3>1, <4>2, <5>1, <5>2, <5>4
          <6> QED
            BY <2>7, <4>2, <6>1 DEF ps
        <5> QED
          BY <5>1, <5>3, <5>4
      <4> QED
        BY <4>1, <4>2
    <3> QED
      BY <3>1 DEF PairsAligned
  <2>9. ASSUME NEW q \in Slots, NEW n \in Metrics
        PROVE  QuietChain(chain[q][n])'
    <3>1. chain'[q][n] = IF q = r /\ n = m THEN IdleChain ELSE chain[q][n]
      BY <1>5 DEF TakeLimit, TypeOK
    <3>2. CASE chain'[q][n] = IdleChain
      BY <3>2 DEF QuietChain, IdleChain
    <3>3. CASE chain'[q][n] = chain[q][n]
      <4>1. QuietChain(chain[q][n])
        BY DEF QuietInv
      <4> QED
        BY <2>3, <3>3, <4>1 DEF QuietChain, Since
    <3> QED
      BY <3>1, <3>2, <3>3
  <2> QED
    BY <2>3, <2>8, <2>9 DEF QuietInv
<1>6. CASE UNCHANGED vars
  BY <1>6 DEF vars, QuietInv, QuietChain, Since, PairsAligned
<1>7. ~ RestartChart
  BY DEF RestartChart, TypeOK
<1> QED
  BY <1>1, <1>2, <1>3, <1>4, <1>5, <1>6, <1>7 DEF Next

\* If the page has one chart controller, no sample arrives during a poll and
\* the series do not lag, every utilization pairs a usage with the limit of the
\* same time: for any number of overlapping polls, any loss, and either order of
\* the responses.
THEOREM PollPairsAligned ==
  ASSUME QuietRounds, MaxLag = 0, MaxCharts = 1
  PROVE  Spec => []PairsAligned
<1>1. Init => QuietInv
  BY DEF Init, QuietInv, QuietChain, PairsAligned, IdleChain, Kinds
<1>2. TypeOK /\ ChainInv /\ QuietInv /\ [Next]_vars => QuietInv'
  BY QuietStep
<1>3. QuietInv => PairsAligned
  BY DEF QuietInv
<1> QED
  BY <1>1, <1>2, <1>3, PollTypeOK, PTL DEF Spec

-----------------------------------------------------------------------------
(* Quiet rounds with responses in ascending order.  Now a second chart      *)
(* controller may set the cursor back at any time: usages and limits may    *)
(* then reach back to different times, but both end at the newest sample,   *)
(* and that is the end from which they are paired.                          *)

\* The responses that a chain has in hand end at the newest sample.
NewestChain(c) ==
  /\ c.pc \in {"usageSent", "limitSent"} => c.resp = NoBatch
  /\ c.pc \in {"usageBack", "limitBack"} => NoMetrics(c.resp) \/ c.resp.to = head["usage"]
  /\ c.pc \in {"limitSent", "limitBack"} => c.usage.to = head["usage"]

\* The charts have nothing newer than Heapster, and nothing newer than the limit
\* that the information box shows.
ChartsInv ==
  \A m \in Metrics : \A i \in 1 .. Len(data[m]) :
    /\ data[m][i][1] = data[m][i][2]
    /\ data[m][i][1] <= head["usage"]
    /\ data[m][i][2] <= lastLimit[m]

\* Of the samples up to x, those not older than h by the retention are in D.
Covers(D, h, x) == \A t \in 1 .. x : t > h - Retention => t \in D

Shown == UNION {Charted(m) : m \in Metrics}

\* Of the samples up to x, those that Heapster still has are on some chart.
Covered(x) == Covers(Shown, head["usage"], x)

CoveredChain(c) == Covered(c.start) /\ Covered(c.usage.from) /\ Covered(c.resp.from)

NewestInv ==
  /\ head["usage"] = head["limit"]
  /\ stamp <= head["usage"]
  /\ \A r \in Slots, m \in Metrics : NewestChain(chain[r][m]) /\ CoveredChain(chain[r][m])
  /\ ChartsInv
  /\ Covers(Shown, stamp, stamp)

\* The array of a batch in ascending order goes back from its newest sample.
LEMMA UnshiftedAscending ==
  ASSUME OldestFirst, NEW b \in Batches, b.from < b.to
  PROVE  /\ Unshifted(b) \in Seq(Time)
         /\ Len(Unshifted(b)) = b.to - b.from
         /\ \A i \in 1 .. b.to - b.from : Unshifted(b)[i] = (b.to + 1) - i
<1> DEFINE n == b.to - b.from
           ms == [i \in 1 .. n |-> b.from + i]
<1>1. n \in Nat \ {0} /\ b.from \in Nat /\ b.to \in Nat
  BY PollConstants DEF Batches, Time
<1>2. ms \in Seq(Nat) /\ Len(ms) = n
  BY <1>1
<1>3. MetricsOf(b) = ms
  BY DEF MetricsOf, Size
<1>4. Unshifted(b) = [i \in 1 .. n |-> ms[(n - i) + 1]]
  BY <1>2, <1>3 DEF Unshifted, Reverse
<1>5. ASSUME NEW i \in 1 .. n
      PROVE  Unshifted(b)[i] = (b.to + 1) - i
  <2>1. (n - i) + 1 \in 1 .. n
    BY <1>1
  <2>2. Unshifted(b)[i] = ms[(n - i) + 1]
    BY <1>4
  <2>3. ms[(n - i) + 1] = b.from + ((n - i) + 1)
    BY <2>1
  <2> QED
    BY <1>1, <2>2, <2>3
<1> QED
  BY <1>5, UnshiftedType

\* The points of two arrays that go back from the same sample
LEMMA PointsBack ==
  ASSUME NEW h \in Time, NEW n \in Nat, NEW k \in Nat, NEW u \in Seq(Time), NEW l \in Seq(Time),
         Len(u) = n, Len(l) = k,
         \A i \in 1 .. n : u[i] = (h + 1) - i, \A i \in 1 .. k : l[i] = (h + 1) - i
  PROVE  /\ Points(u, l) \in Seq(Time \X Time)
         /\ Len(Points(u, l)) = IF n < k THEN n ELSE k
         /\ \A i \in 1 .. Len(Points(u, l)) : Points(u, l)[i] = <<(h + 1) - i, (h + 1) - i>>
<1> DEFINE z == IF n < k THEN n ELSE k
           ps == Points(u, l)
<1>1. z \in Nat /\ z <= n /\ z <= k
  OBVIOUS
<1>2. ps = [i \in 1 .. z |-> <<u[i], l[i]>>]
  BY DEF Points
<1>3. \A i \in 1 .. z : /\ u[i] = (h + 1) - i /\ l[i] = (h + 1) - i
                       /\ u[i] \in Time /\ l[i] \in Time
  BY <1>1
<1> HIDE DEF z
<1>4. ps \in Seq(Time \X Time) /\ Len(ps) = z
  BY <1>1, <1>2, <1>3
<1>5. \A i \in 1 .. z : ps[i] = <<(h + 1) - i, (h + 1) - i>>
  BY <1>2, <1>3
<1> HIDE DEF ps
<1>6. \A i \in 1 .. Len(ps) : ps[i] = <<(h + 1) - i, (h + 1) - i>>
  BY <1>4, <1>5
<1> QED
  BY <1>4, <1>6 DEF ps, z

\* What the second callback does in a quiet round: the points go back from the
\* newest sample to where the shorter response begins.
LEMMA TakeLimitNewest ==
  ASSUME OldestFirst, TypeOK, ChainInv, NEW r \in Slots, NEW m \in Metrics,
         NewestChain(chain[r][m]), TakeLimit(r, m)
  PROVE  \E ps \in Seq(Time \X Time) :
           /\ data' = [data EXCEPT ![m] = data[m] \o ps]
           /\ lastLimit' = [lastLimit EXCEPT ![m] = head["usage"]]
           /\ stamp' = head["usage"]
           /\ \A i \in 1 .. Len(ps) :
                ps[i] = <<(head["usage"] + 1) - i, (head["usage"] + 1) - i>>
           /\ Len(ps) =
                head["usage"] - LaterOf(chain[r][m].usage.from, chain[r][m].resp.from)
<1> DEFINE bu == chain[r][m].usage
           bl == chain[r][m].resp
           h == head["usage"]
           u == Unshifted(bu)
           l == Unshifted(bl)
<1>1. bu \in Batches /\ bl \in Batches /\ h \in Time
  BY DEF TypeOK, Chains, Kinds
<1>2. bu.from < bu.to /\ bl.from < bl.to
  <2>1. bu.from < bu.to
    BY DEF ChainInv, WellFormed, TakeLimit
  <2>2. bl.from <= bl.to /\ bl.to - bl.from # 0
    BY DEF ChainInv, WellFormed, TakeLimit, NoMetrics, Size
  <2> QED
    BY <1>1, <2>1, <2>2 DEF Batches, Time
<1>3. bu.to = h /\ bl.to = h
  BY DEF NewestChain, TakeLimit
<1>4. /\ lastLimit' = [lastLimit EXCEPT ![m] = l[1]]
      /\ data' = [data EXCEPT ![m] = data[m] \o Points(u, l)]
      /\ stamp' = LaterOf(bu.to, bl.to)
  BY DEF TakeLimit
<1> HIDE DEF bu, bl, h
<1>5. u \in Seq(Time) /\ Len(u) = h - bu.from /\ \A i \in 1 .. h - bu.from : u[i] = (h + 1) - i
  BY <1>1, <1>2, <1>3, UnshiftedAscending
<1>6. l \in Seq(Time) /\ Len(l) = h - bl.from /\ \A i \in 1 .. h - bl.from : l[i] = (h + 1) - i
  BY <1>1, <1>2, <1>3, UnshiftedAscending
<1>7. h \in Nat /\ h - bu.from \in Nat \ {0} /\ h - bl.from \in Nat \ {0} /\ bu.from \in Nat /\ bl.from \in Nat
  BY <1>1, <1>2, <1>3 DEF Batches, Time
<1> HIDE DEF u, l
<1> DEFINE ps == Points(u, l)
           n == h - bu.from
           k == h - bl.from
<1>8. /\ ps \in Seq(Time \X Time)
      /\ Len(ps) = IF n < k THEN n ELSE k
      /\ \A i \in 1 .. Len(ps) : ps[i] = <<(h + 1) - i, (h + 1) - i>>
  <2>1. n \in Nat /\ k \in Nat /\ Len(u) = n /\ Len(l) = k /\ u \in Seq(Time) /\ l \in Seq(Time)
    BY <1>5, <1>6, <1>7
  <2>2. (\A i \in 1 .. n : u[i] = (h + 1) - i) /\ (\A i \in 1 .. k : l[i] = (h + 1) - i)
    BY <1>5, <1>6
  <2> HIDE DEF n, k
  <2>3. Points(u, l) \in Seq(Time \X Time)
    BY <1>1, <2>1, <2>2, PointsBack
  <2>4. Len(Points(u, l)) = IF n < k THEN n ELSE k
    BY <1>1, <2>1, <2>2, PointsBack
  <2>5. \A i \in 1 .. Len(Points(u, l)) : Points(u, l)[i] = <<(h + 1) - i, (h + 1) - i>>
    BY <1>1, <2>1, <2>2, PointsBack, SMTT(30)
  <2> QED
    BY <2>3, <2>4, <2>5
<1>9. l[1] = h
  BY <1>6, <1>7
<1>10. Len(ps) = h - LaterOf(bu.from, bl.from)
  BY <1>7, <1>8 DEF LaterOf
<1>11. stamp' = h
  BY <1>3, <1>4 DEF LaterOf
<1>12. lastLimit' = [lastLimit EXCEPT ![m] = h] /\ data' = [data EXCEPT ![m] = data[m] \o ps]
  BY <1>4, <1>9
<1> HIDE DEF ps
<1> QED
  BY <1>8, <1>10, <1>11, <1>12 DEF bu, bl, h

\* What covers the samples up to x still does when charts and series grow.
LEMMA CoversGrow ==
  ASSUME NEW D, NEW E, D \subseteq E, NEW h \in Nat, NEW g \in Nat, h <= g, NEW x \in Nat,
         Covers(D, h, x)
  PROVE  Covers(E, g, x)
BY PollConstants DEF Covers

\* The response to a request from a covered time begins at a covered time and
\* ends at the newest sample, unless it is empty.
LEMMA SinceCovered ==
  ASSUME TypeOK, head["usage"] = head["limit"], NEW s \in Time, Covered(s), NEW k \in Kinds
  PROVE  /\ Covered(Since(s, k).from)
         /\ Since(s, k) = NoBatch \/ Since(s, k).to = head["usage"]
<1> DEFINE h == head["usage"]
<1>1. h \in Nat /\ s \in Nat /\ Retention \in Nat
  BY PollConstants DEF TypeOK, Kinds, Time
<1>2. Since(s, k) = IF h > s THEN [from |-> LaterOf(s, h - Retention), to |-> h] ELSE NoBatch
  BY DEF Since, Kinds
<1>3. Covers(Shown, h, s)
  BY DEF Covered
<1> HIDE DEF h
<1>4. Since(s, k).from \in {0, s, h - Retention}
  BY <1>2 DEF LaterOf, NoBatch
<1>5. Covers(Shown, h, 0) /\ Covers(Shown, h, h - Retention)
  BY <1>1 DEF Covers
<1>6. Covers(Shown, h, Since(s, k).from)
  BY <1>3, <1>4, <1>5
<1> QED
  BY <1>2, <1>6 DEF Covered, h

\* The epoch is covered.
LEMMA EpochCovered == Covered(0)
BY DEF Covered, Covers

\* The cursor is covered, because Heapster has nothing that was too old for it.
LEMMA CursorCovered ==
  ASSUME TypeOK, NewestInv
  PROVE  Covered(stamp)
<1>1. stamp \in Nat /\ head["usage"] \in Nat /\ stamp <= head["usage"]
  BY DEF TypeOK, NewestInv, Kinds, Time
<1>2. Covers(Shown, stamp, stamp)
  BY DEF NewestInv
<1> QED
  BY <1>1, <1>2, CoversGrow DEF Covered

\* A step that replaces one chain leaves the others as they are.
LEMMA NewestUpdate ==
  ASSUME TypeOK, NewestInv, NEW r \in Slots, NEW m \in Metrics, NEW c,
         NewestChain(c), CoveredChain(c), chain' = [chain EXCEPT ![r][m] = c],
         UNCHANGED <<head, stamp, data, lastLimit>>
  PROVE  NewestInv'
<1>1. ASSUME NEW q \in Slots, NEW n \in Metrics
      PROVE  NewestChain(chain[q][n])' /\ CoveredChain(chain[q][n])'
  <2>1. chain'[q][n] = IF q = r /\ n = m THEN c ELSE chain[q][n]
    BY DEF TypeOK
  <2>2. NewestChain(chain'[q][n]) /\ CoveredChain(chain'[q][n])
    BY <2>1 DEF NewestInv
  <2> QED
    BY <2>2 DEF NewestChain, CoveredChain, Covered, Covers, Shown, Charted
<1> QED
  BY <1>1 DEF NewestInv, ChartsInv, Covers, Shown, Charted

\* A step that changes no chain but those of the slot r, which become c, and no
\* chart: what the others have in hand stays covered.
LEMMA NewestSlot ==
  ASSUME TypeOK, NewestInv, NEW r \in Slots, NEW c, NewestChain(c), CoveredChain(c),
         chain' = [chain EXCEPT ![r] = [m \in Metrics |-> c]],
         UNCHANGED <<head, stamp, data, lastLimit>>
  PROVE  NewestInv'
<1>1. ASSUME NEW q \in Slots, NEW n \in Metrics
      PROVE  NewestChain(chain[q][n])' /\ CoveredChain(chain[q][n])'
  <2>1. chain'[q][n] = IF q = r THEN c ELSE chain[q][n]
    BY DEF TypeOK
  <2>2. NewestChain(chain'[q][n]) /\ CoveredChain(chain'[q][n])
    BY <2>1 DEF NewestInv
  <2> QED
    BY <2>2 DEF NewestChain, CoveredChain, Covered, Covers, Shown, Charted
<1> QED
  BY <1>1 DEF NewestInv, ChartsInv, Covers, Shown, Charted

\* The points that the second callback adds to a chart, and all that were there
\* before, are shown after it.
LEMMA TakeLimitShows ==
  ASSUME TypeOK, NEW m \in Metrics, NEW ps \in Seq(Time \X Time),
         data' = [data EXCEPT ![m] = data[m] \o ps]
  PROVE  /\ Shown \subseteq Shown'
         /\ \A i \in 1 .. Len(ps) : ps[i][1] \in Shown'
<1>1. data[m] \in Seq(Time \X Time) /\ data'[m] = data[m] \o ps
  BY DEF TypeOK
<1>2. ASSUME NEW n \in Metrics, NEW i \in 1 .. Len(data[n])
      PROVE  i \in 1 .. Len(data'[n]) /\ data'[n][i] = data[n][i]
  <2>1. CASE n = m
    BY <1>1, <1>2, <2>1
  <2>2. CASE n # m
    BY <1>2, <2>2 DEF TypeOK
  <2> QED
    BY <2>1, <2>2
<1>3. ASSUME NEW i \in 1 .. Len(ps)
      PROVE  \E j \in 1 .. Len(data'[m]) : data'[m][j] = ps[i]
  <2>1. Len(data[m]) + i \in 1 .. Len(data'[m]) /\ data'[m][Len(data[m]) + i] = ps[i]
    BY <1>1, <1>3
  <2> QED
    BY <2>1
<1>4. ASSUME NEW t \in Shown
      PROVE  t \in Shown'
  <2>1. PICK n \in Metrics : \E i \in 1 .. Len(data[n]) : t = data[n][i][1]
    BY <1>4 DEF Shown, Charted
  <2> QED
    BY <1>2, <2>1 DEF Shown, Charted
<1>5. ASSUME NEW i \in 1 .. Len(ps)
      PROVE  ps[i][1] \in Shown'
  <2>1. PICK j \in 1 .. Len(data'[m]) : data'[m][j] = ps[i]
    BY <1>3, <1>5
  <2>2. ps[i][1] \in Charted(m)'
    BY <2>1 DEF Charted
  <2> QED
    BY <2>2 DEF Shown
<1> QED
  BY <1>4, <1>5

\* Every step of a quiet round keeps the invariant, the restart of a chart too.
LEMMA NewestStep ==
  ASSUME QuietRounds, MaxLag = 0, OldestFirst, TypeOK, TypeOK', ChainInv, NewestInv,
         [Next]_vars
  PROVE  NewestInv'
<1> USE PollConstants
<1>1. ASSUME NEW K \in SUBSET Kinds, Ingest(K)
      PROVE  NewestInv'
  <2>1. \A r \in Slots, m \in Metrics : chain'[r][m].pc = "idle"
    BY <1>1 DEF Ingest, Idle
  <2>2. head'["usage"] = head'["limit"]
    <3>1. head'["usage"] \in Int /\ head'["limit"] \in Int
      BY <1>1 DEF Ingest, TypeOK, Kinds, Time
    <3>2. head'["usage"] - head'["limit"] <= 0 /\ head'["limit"] - head'["usage"] <= 0
      BY <1>1 DEF Ingest, Kinds
    <3> QED
      BY <3>1, <3>2
  <2>3. /\ head["usage"] \in Nat /\ head'["usage"] \in Nat
        /\ head["usage"] <= head'["usage"]
    BY <1>1 DEF Ingest, TypeOK, Kinds, Time
  <2>4. UNCHANGED <<stamp, chain, data, lastLimit>>
    BY <1>1 DEF Ingest
  <2>5. Shown' = Shown
    BY <2>4 DEF Shown, Charted
  <2>6. ASSUME NEW r \in Slots, NEW m \in Metrics
        PROVE  NewestChain(chain[r][m])' /\ CoveredChain(chain[r][m])'
    <3>1. NewestChain(chain[r][m])'
      BY <2>1 DEF NewestChain
    <3> DEFINE D == Shown
               h == head["usage"]
               g == head'["usage"]
    <3>2. \A x \in Nat : Covers(D, h, x) => Covers(D, g, x)
      <4> HIDE DEF D, h, g
      <4> QED
        BY <2>3, CoversGrow DEF h, g
    <3>3. /\ chain[r][m].start \in Nat
          /\ chain[r][m].usage.from \in Nat
          /\ chain[r][m].resp.from \in Nat
      <4>1. chain[r][m] \in Chains
        BY DEF TypeOK
      <4> QED
        BY <4>1 DEF Chains, Batches, Time
    <3>4. CoveredChain(chain[r][m])
      BY DEF NewestInv
    <3> QED
      BY <2>4, <2>5, <3>1, <3>2, <3>3, <3>4 DEF CoveredChain, Covered, Covers
  <2>7. ChartsInv'
    <3>1. ASSUME NEW m \in Metrics, NEW i \in 1 .. Len(data[m])
          PROVE  data[m][i][1] <= head'["usage"]
      <4>1. data[m][i] \in Time \X Time
        BY DEF TypeOK
      <4>2. data[m][i][1] \in Nat /\ data[m][i][1] <= head["usage"]
        BY <4>1 DEF NewestInv, ChartsInv, Time
      <4> QED
        BY <2>3, <4>2
    <3> QED
      BY <2>4, <3>1 DEF NewestInv, ChartsInv
  <2>8. stamp' <= head'["usage"]
    BY <2>3, <2>4 DEF NewestInv, TypeOK, Time
  <2> QED
    BY <2>2, <2>4, <2>5, <2>6, <2>7, <2>8 DEF NewestInv, Covers
<1>2. ASSUME NEW r \in Slots, Poll(r)
      PROVE  NewestInv'
  <2> DEFINE c == [IdleChain EXCEPT !.pc = "usageSent", !.start = stamp]
  <2>1. c.pc = "usageSent" /\ c.start = stamp /\ c.resp = NoBatch /\ c.usage = NoBatch
    BY DEF IdleChain
  <2> HIDE DEF c
  <2>2. NewestChain(c)
    BY <2>1 DEF NewestChain
  <2>3. CoveredChain(c)
    BY <2>1, CursorCovered, EpochCovered DEF CoveredChain, NoBatch
  <2>4. chain' = [chain EXCEPT ![r] = [m \in Metrics |-> c]]
    BY <1>2 DEF Poll, c
  <2>5. UNCHANGED <<head, stamp, data, lastLimit>>
    BY <1>2 DEF Poll
  <2> QED
    BY <2>2, <2>3, <2>4, <2>5, NewestSlot
<1>3. CASE \/ UNCHANGED vars
           \/ \E r \in Slots : ServeStats(r) \/ TakeStats(r) \/ LoseStats(r)
  <2>1. UNCHANGED <<head, stamp, chain, data, lastLimit>>
    BY <1>3 DEF vars, ServeStats, TakeStats, LoseStats
  <2>2. Shown' = Shown
    BY <2>1 DEF Shown, Charted
  <2>3. ASSUME NEW r \in Slots, NEW m \in Metrics
        PROVE  NewestChain(chain[r][m])' /\ CoveredChain(chain[r][m])'
    <3>1. NewestChain(chain[r][m]) /\ CoveredChain(chain[r][m])
      BY DEF NewestInv
    <3> QED
      BY <2>1, <2>2, <3>1 DEF NewestChain, CoveredChain, Covered, Covers
  <2>4. ChartsInv'
    BY <2>1 DEF NewestInv, ChartsInv
  <2> QED
    BY <2>1, <2>2, <2>3, <2>4 DEF NewestInv, Covers
<1>4. CASE RestartChart
  <2>1. UNCHANGED <<head, chain, data, lastLimit>> /\ stamp' = 0
    BY <1>4 DEF RestartChart
  <2>2. 0 <= head'["usage"]
    BY <2>1 DEF TypeOK, Kinds, Time
  <2>3. Covers(Shown, stamp, stamp)'
    BY <2>1 DEF Covers
  <2>4. ASSUME NEW q \in Slots, NEW n \in Metrics
        PROVE  NewestChain(chain[q][n])' /\ CoveredChain(chain[q][n])'
    <3>1. NewestChain(chain[q][n]) /\ CoveredChain(chain[q][n])
      BY DEF NewestInv
    <3> QED
      BY <2>1, <3>1 DEF NewestChain, CoveredChain, Covered, Covers, Shown, Charted
  <2>5. ChartsInv'
    BY <2>1 DEF NewestInv, ChartsInv
  <2> QED
    BY <2>1, <2>2, <2>3, <2>4, <2>5 DEF NewestInv
<1>5. ASSUME NEW r \in Slots, NEW m \in Metrics,
             \/ ServeUsage(r, m) \/ ServeLimit(r, m) \/ ServeEmpty(r, m)
             \/ TakeUsage(r, m) \/ Postpone(r, m) \/ LoseMetric(r, m)
      PROVE  NewestInv'
  <2>1. chain[r][m] \in Chains /\ NewestChain(chain[r][m]) /\ CoveredChain(chain[r][m])
    BY DEF TypeOK, NewestInv
  <2>2. head["usage"] = head["limit"]
    BY DEF NewestInv
  <2>3. NoMetrics(NoBatch) /\ Covered(NoBatch.from)
    BY EpochCovered DEF NoMetrics, Size, NoBatch
  <2>4. ASSUME NEW k \in Kinds
        PROVE  LET b == Since(chain[r][m].start, k)
               IN  Covered(b.from) /\ (b = NoBatch \/ b.to = head["usage"])
    BY <2>1, <2>2, SinceCovered DEF CoveredChain, Chains
  <2>5. \E c : NewestChain(c) /\ CoveredChain(c) /\ chain' = [chain EXCEPT ![r][m] = c]
    <3>1. CASE ServeUsage(r, m)
      <4> DEFINE b == Since(chain[r][m].start, "usage")
                 c == [chain[r][m] EXCEPT !.pc = "usageBack", !.resp = b]
      <4>1. Covered(b.from) /\ (b = NoBatch \/ b.to = head["usage"])
        BY <2>4 DEF Kinds
      <4>2. /\ c.pc = "usageBack" /\ c.resp = b
            /\ c.start = chain[r][m].start /\ c.usage = chain[r][m].usage
        BY <2>1 DEF Chains
      <4>3. chain' = [chain EXCEPT ![r][m] = c]
        BY <3>1 DEF ServeUsage
      <4> HIDE DEF b, c
      <4>4. NewestChain(c) /\ CoveredChain(c)
        BY <2>1, <2>3, <4>1, <4>2 DEF NewestChain, CoveredChain
      <4> QED
        BY <4>3, <4>4
    <3>2. CASE ServeLimit(r, m)
      <4> DEFINE b == Since(chain[r][m].start, "limit")
                 c == [chain[r][m] EXCEPT !.pc = "limitBack", !.resp = b]
      <4>1. Covered(b.from) /\ (b = NoBatch \/ b.to = head["usage"])
        BY <2>4 DEF Kinds
      <4>2. /\ c.pc = "limitBack" /\ c.resp = b
            /\ c.start = chain[r][m].start /\ c.usage = chain[r][m].usage
        BY <2>1 DEF Chains
      <4>3. chain' = [chain EXCEPT ![r][m] = c] /\ chain[r][m].pc = "limitSent"
        BY <3>2 DEF ServeLimit
      <4> HIDE DEF b, c
      <4>4. NewestChain(c) /\ CoveredChain(c)
        BY <2>1, <2>3, <4>1, <4>2, <4>3 DEF NewestChain, CoveredChain
      <4> QED
        BY <4>3, <4>4
    <3>3. CASE ServeEmpty(r, m)
      <4>1. PICK q \in {"usageBack", "limitBack"} :
              /\ chain' = [chain EXCEPT ![r][m] = [chain[r][m] EXCEPT !.pc = q]]
              /\ chain[r][m].pc = IF q = "usageBack" THEN "usageSent" ELSE "limitSent"
        BY <3>3 DEF ServeEmpty
      <4> DEFINE c == [chain[r][m] EXCEPT !.pc = q]
      <4>2. /\ c.pc = q /\ c.resp = chain[r][m].resp
            /\ c.start = chain[r][m].start /\ c.usage = chain[r][m].usage
        BY <2>1 DEF Chains
      <4> HIDE DEF c
      <4>3. NewestChain(c) /\ CoveredChain(c)
        BY <2>1, <2>3, <4>1, <4>2 DEF NewestChain, CoveredChain
      <4> QED
        BY <4>1, <4>3 DEF c
    <3>4. CASE TakeUsage(r, m)
      <4> DEFINE c == [pc |-> "limitSent", start |-> stamp,
                       usage |-> chain[r][m].resp, resp |-> NoBatch]
      <4>1. NewestChain(c)
        BY <2>1, <3>4 DEF TakeUsage, NewestChain
      <4>2. CoveredChain(c)
        BY <2>1, <2>3, CursorCovered DEF CoveredChain
      <4> QED
        BY <3>4, <4>1, <4>2 DEF TakeUsage
    <3>5. CASE Postpone(r, m) \/ LoseMetric(r, m)
      <4>1. NewestChain(IdleChain)
        BY DEF IdleChain, NewestChain
      <4>2. CoveredChain(IdleChain)
        BY EpochCovered DEF IdleChain, CoveredChain, NoBatch
      <4> QED
        BY <3>5, <4>1, <4>2 DEF Postpone, LoseMetric
    <3> QED
      BY <1>5, <3>1, <3>2, <3>3, <3>4, <3>5
  <2>6. UNCHANGED <<head, stamp, data, lastLimit>>
    BY <1>5 DEF ServeUsage, ServeLimit, ServeEmpty, TakeUsage, Postpone, LoseMetric
  <2> QED
    BY <2>5, <2>6, NewestUpdate
<1>6. ASSUME NEW r \in Slots, NEW m \in Metrics, TakeLimit(r, m)
      PROVE  NewestInv'
  <2> DEFINE h == head["usage"]
             f == LaterOf(chain[r][m].usage.from, chain[r][m].resp.from)
  <2>1. chain[r][m] \in Chains /\ NewestChain(chain[r][m]) /\ CoveredChain(chain[r][m])
    BY DEF TypeOK, NewestInv
  <2>2. PICK ps \in Seq(Time \X Time) :
          /\ data' = [data EXCEPT ![m] = data[m] \o ps]
          /\ lastLimit' = [lastLimit EXCEPT ![m] = h]
          /\ stamp' = h
          /\ \A i \in 1 .. Len(ps) : ps[i] = <<(h + 1) - i, (h + 1) - i>>
          /\ Len(ps) = h - f
    BY <1>6, <2>1, TakeLimitNewest
  <2>3. head' = head /\ chain' = [chain EXCEPT ![r][m] = IdleChain]
    BY <1>6 DEF TakeLimit
  <2>4. h \in Nat /\ f \in Nat
    <3>1. h \in Nat
      BY DEF TypeOK, Kinds, Time
    <3>2. chain[r][m].usage.from \in Nat /\ chain[r][m].resp.from \in Nat
      BY <2>1 DEF Chains, Batches, Time
    <3> QED
      BY <3>1, <3>2 DEF LaterOf
  <2>5. Covered(f)
    BY <2>1 DEF CoveredChain, LaterOf
  <2>6. Shown \subseteq Shown' /\ \A i \in 1 .. Len(ps) : ps[i][1] \in Shown'
    BY <2>2, TakeLimitShows
  <2> HIDE DEF h, f
  <2>7. ASSUME NEW t \in 1 .. h, t > h - Retention
        PROVE  t \in Shown'
    <3>1. CASE t <= f
      <4>1. t \in Shown
        BY <2>4, <2>5, <2>7, <3>1 DEF Covered, Covers, h
      <4> QED
        BY <2>6, <4>1
    <3>2. CASE t > f
      <4>1. (h + 1) - t \in 1 .. Len(ps) /\ (h + 1) - ((h + 1) - t) = t
        BY <2>2, <2>4, <2>7, <3>2
      <4>2. ps[(h + 1) - t][1] = t
        BY <2>2, <4>1
      <4> QED
        BY <2>6, <4>1, <4>2
    <3> QED
      BY <2>4, <2>7, <3>1, <3>2
  <2>8. Covers(Shown, stamp, stamp)'
    BY <2>2, <2>7 DEF Covers
  <2>9. ASSUME NEW q \in Slots, NEW n \in Metrics
        PROVE  NewestChain(chain[q][n])' /\ CoveredChain(chain[q][n])'
    <3>1. chain'[q][n] = IF q = r /\ n = m THEN IdleChain ELSE chain[q][n]
      BY <2>3 DEF TypeOK
    <3>2. NewestChain(IdleChain) /\ CoveredChain(IdleChain)
      BY EpochCovered DEF IdleChain, CoveredChain, NoBatch, NewestChain
    <3>3. NewestChain(chain'[q][n]) /\ CoveredChain(chain'[q][n])
      BY <3>1, <3>2 DEF NewestInv
    <3>4. NewestChain(chain[q][n])'
      BY <2>3, <3>3 DEF NewestChain
    <3> QED
      BY <2>3, <2>6, <3>3, <3>4 DEF CoveredChain, Covered, Covers
  <2>10. ChartsInv'
    <3>1. ASSUME NEW n \in Metrics, NEW i \in 1 .. Len(data'[n])
          PROVE  /\ data'[n][i][1] = data'[n][i][2]
                 /\ data'[n][i][1] <= h
                 /\ data'[n][i][2] <= lastLimit'[n]
      <4>1. CASE n # m
        BY <2>2, <3>1, <4>1 DEF TypeOK, NewestInv, ChartsInv, h
      <4>2. CASE n = m
        <5>1. data[m] \in Seq(Time \X Time) /\ lastLimit'[m] = h
          BY <2>2 DEF TypeOK
        <5>2. data'[m] = data[m] \o ps
          BY <2>2 DEF TypeOK
        <5>3. CASE i <= Len(data[m])
          <6>1. i \in 1 .. Len(data[m]) /\ data'[m][i] = data[m][i]
            BY <3>1, <4>2, <5>1, <5>2, <5>3
          <6>2. data[m][i][1] = data[m][i][2] /\ data[m][i][1] <= h
            BY <6>1 DEF NewestInv, ChartsInv, h
          <6> QED
            BY <4>2, <5>1, <6>1, <6>2
        <5>4. CASE i > Len(data[m])
          <6>1. i - Len(data[m]) \in 1 .. Len(ps) /\ data'[m][i] = ps[i - Len(data[m])]
            BY <3>1, <4>2, <5>1, <5>2, <5>4
          <6> DEFINE j == i - Len(data[m])
          <6>2. data'[m][i] = <<(h + 1) - j, (h + 1) - j>> /\ j \in Nat /\ j >= 1
            BY <2>2, <6>1
          <6> HIDE DEF j
          <6>3. (h + 1) - j <= h
            BY <2>4, <6>2
          <6> QED
            BY <4>2, <5>1, <6>2, <6>3
        <5> QED
          BY <3>1, <4>2, <5>1, <5>2, <5>3, <5>4
      <4> QED
        BY <4>1, <4>2
    <3> QED
      BY <2>3, <3>1 DEF ChartsInv, h
  <2> QED
    BY <2>2, <2>3, <2>4, <2>8, <2>9, <2>10 DEF NewestInv, h
<1> QED
  BY <1>1, <1>2, <1>3, <1>4, <1>5, <1>6 DEF Next

\* The initial state has the invariant, and it implies the properties.
LEMMA NewestInit == Init => NewestInv
BY PollConstants
DEF Init, NewestInv, NewestChain, CoveredChain, Covered, Covers, ChartsInv, IdleChain, NoBatch,
    Kinds, Time

LEMMA NewestImplies ==
  ASSUME TypeOK, NewestInv
  PROVE  PairsAligned /\ LastLimitIsNewest /\ NothingSkippedByBoth
<1>1. PairsAligned /\ LastLimitIsNewest
  BY DEF NewestInv, ChartsInv, PairsAligned, LastLimitIsNewest
<1>2. ASSUME NEW t \in RecentTimes
      PROVE  \E m \in Metrics : t \in Charted(m)
  <2>1. t \in Shown
    BY <1>2 DEF RecentTimes, NewestInv, Covers
  <2> QED
    BY <2>1 DEF Shown
<1> QED
  BY <1>1, <1>2 DEF NothingSkippedByBoth

LEMMA NewestInvariant ==
  ASSUME QuietRounds, MaxLag = 0, OldestFirst
  PROVE  Spec => [](TypeOK /\ NewestInv)
<1>1. TypeOK /\ TypeOK' /\ ChainInv /\ NewestInv /\ [Next]_vars => NewestInv'
  BY NewestStep
<1> QED
  BY <1>1, NewestInit, PollTypeOK, PTL DEF Spec

\* In quiet rounds with responses in ascending order, a chart that is restarted
\* while it is polled, by however many controllers and with whatever loss, still
\* divides every usage by the limit of its time.
THEOREM PollPairsAlignedRestarted ==
  ASSUME QuietRounds, MaxLag = 0, OldestFirst
  PROVE  Spec => []PairsAligned
BY NewestInvariant, NewestImplies, PTL

\* Under the same hypotheses the information box shows the newest limit charted.
THEOREM PollLastLimitIsNewest ==
  ASSUME QuietRounds, MaxLag = 0, OldestFirst
  PROVE  Spec => []LastLimitIsNewest
BY NewestInvariant, NewestImplies, PTL

\* Under the same hypotheses the cursor, which the two chains of every poll
\* share, passes no recent sample that neither chart shows.
THEOREM PollNothingSkippedByBoth ==
  ASSUME QuietRounds, MaxLag = 0, OldestFirst
  PROVE  Spec => []NothingSkippedByBoth
BY NewestInvariant, NewestImplies, PTL

-----------------------------------------------------------------------------
(* How often a sample is charted.  Polls that overlap may each chart what   *)
(* they asked for before another of them moved the cursor, so a sample has  *)
(* room for one point per slot each time that charting is started from the  *)
(* epoch: what is ahead of the cursor has the last of these rooms free, and *)
(* what chains may still push fits in.                                      *)

\* The indices of d at which the usage has time t
Places(d, t) == {i \in 1 .. Len(d) : d[i][1] = t}
Times(m, t) == Cardinality(Places(data[m], t))

\* What a chain has asked for, it may chart.
MayChart(c, t) ==
  \/ c.pc = "usageSent" /\ t > c.start
  \/ c.pc = "usageBack" /\ ~NoMetrics(c.resp) /\ t > c.resp.from
  \/ c.pc \in {"limitSent", "limitBack"} /\ t > c.usage.from

Pending(m, t) == {r \in Slots : MayChart(chain[r][m], t)}

\* The points of one time that c starts have room for
Room(c) == c * Cardinality(Slots)

SharedInv ==
  /\ \A m \in Metrics, t \in Time : Times(m, t) + Cardinality(Pending(m, t)) <= Room(charts)
  /\ \A m \in Metrics, t \in Time : t > stamp => Times(m, t) <= Room(charts - 1)

\* Every start adds room for one point per slot.
LEMMA RoomGrows ==
  ASSUME IsFiniteSet(Slots), NEW c \in Nat
  PROVE  /\ Cardinality(Slots) \in Nat
         /\ Room(c) \in Nat
         /\ Room(c + 1) = Room(c) + Cardinality(Slots)
<1> DEFINE k == Cardinality(Slots)
<1>1. k \in Nat
  BY FS_CardinalityType
<1> HIDE DEF k
<1>2. c * k \in Nat /\ (c + 1) * k = c * k + k
  BY <1>1
<1> QED
  BY <1>1, <1>2 DEF Room, k

\* The places of a time in a chart are finitely many.
LEMMA PlacesFinite ==
  ASSUME NEW d \in Seq(Time \X Time), NEW t \in Nat
  PROVE  IsFiniteSet(Places(d, t)) /\ Cardinality(Places(d, t)) \in Nat
<1>1. IsFiniteSet(1 .. Len(d))
  BY FS_Interval
<1>2. Places(d, t) \subseteq 1 .. Len(d)
  BY DEF Places
<1>3. IsFiniteSet(Places(d, t))
  BY <1>1, <1>2, FS_Subset
<1> QED
  BY <1>3, FS_CardinalityType

\* Points that go back from the sample h add at most one place to each time,
\* and none to a time that they do not reach.
LEMMA PlacesAfter ==
  ASSUME NEW d \in Seq(Time \X Time), NEW ps \in Seq(Time \X Time), NEW h \in Nat,
         \A i \in 1 .. Len(ps) : ps[i] = <<(h + 1) - i, (h + 1) - i>>,
         NEW t \in Nat
  PROVE  /\ Cardinality(Places(d \o ps, t)) <= Cardinality(Places(d, t)) + 1
         /\ (t > h \/ h - Len(ps) >= t) => Places(d \o ps, t) = Places(d, t)
<1> DEFINE e == d \o ps
           x == Len(d) + ((h + 1) - t)
<1>1. t \in Nat /\ Len(d) \in Nat /\ Len(ps) \in Nat
  BY PollConstants DEF Time
<1>2. e \in Seq(Time \X Time) /\ Len(e) = Len(d) + Len(ps)
  OBVIOUS
<1>3. ASSUME NEW i \in 1 .. Len(e)
      PROVE  /\ i <= Len(d) => e[i] = d[i] /\ i \in 1 .. Len(d)
             /\ i > Len(d) => (e[i][1] = t <=> i = x)
  <2>1. i <= Len(d) => e[i] = d[i] /\ i \in 1 .. Len(d)
    BY <1>1, <1>2
  <2>2. ASSUME i > Len(d)
        PROVE  e[i][1] = t <=> i = x
    <3> DEFINE j == i - Len(d)
    <3>1. j \in 1 .. Len(ps) /\ e[i] = ps[j]
      BY <1>1, <1>2, <2>2
    <3>2. e[i][1] = (h + 1) - j
      BY <3>1
    <3> QED
      BY <1>1, <3>1, <3>2
  <2> QED
    BY <2>1, <2>2
<1>4. ASSUME NEW i \in 1 .. Len(d)
      PROVE  i \in 1 .. Len(e) /\ e[i] = d[i]
  BY <1>1, <1>2
<1> HIDE DEF e, x
<1>5. Places(d, t) \subseteq Places(e, t) /\ Places(e, t) \subseteq Places(d, t) \cup {x}
  BY <1>1, <1>2, <1>3, <1>4 DEF Places
<1>6. ASSUME t > h \/ h - Len(ps) >= t
      PROVE  Places(e, t) = Places(d, t)
  <2>1. x \notin Len(d) + 1 .. Len(e)
    BY <1>1, <1>2, <1>6 DEF x
  <2>2. ASSUME NEW i \in Places(e, t)
        PROVE  i \in Places(d, t)
    <3>1. i \in 1 .. Len(e) /\ e[i][1] = t
      BY <2>2 DEF Places
    <3>2. i <= Len(d)
      BY <1>1, <1>2, <1>3, <2>1, <3>1
    <3> QED
      BY <1>3, <3>1, <3>2 DEF Places
  <2> QED
    BY <1>5, <2>2
<1>7. Cardinality(Places(e, t)) <= Cardinality(Places(d, t)) + 1
  <2> DEFINE P == Places(d, t)
             Q == Places(e, t)
  <2>1. IsFiniteSet(P) /\ Cardinality(P) \in Nat
    BY PlacesFinite
  <2>2. Q = P \/ Q = P \cup {x}
    BY <1>5
  <2> HIDE DEF P, Q
  <2>3. Cardinality(P \cup {x}) = IF x \in P THEN Cardinality(P) ELSE Cardinality(P) + 1
    BY <2>1, FS_AddElement
  <2>4. Cardinality(Q) \in {Cardinality(P), Cardinality(P) + 1}
    <3>1. CASE Q = P
      BY <3>1
    <3>2. CASE Q = P \cup {x}
      <4>1. Cardinality(Q) = Cardinality(P \cup {x})
        BY <3>2
      <4> QED
        BY <2>3, <4>1
    <3> QED
      BY <2>2, <3>1, <3>2
  <2>5. Cardinality(Q) <= Cardinality(P) + 1
    BY <2>1, <2>4
  <2> QED
    BY <2>5 DEF P, Q
<1> QED
  BY <1>6, <1>7 DEF e

\* A time that the points do not reach keeps its places.
LEMMA PlacesNotReached ==
  ASSUME NEW d \in Seq(Time \X Time), NEW ps \in Seq(Time \X Time), NEW h \in Nat,
         \A i \in 1 .. Len(ps) : ps[i] = <<(h + 1) - i, (h + 1) - i>>,
         NEW t \in Nat, t > h \/ h - Len(ps) >= t
  PROVE  Cardinality(Places(d \o ps, t)) = Cardinality(Places(d, t))
BY PlacesAfter

\* The slots whose chains may chart a time are finitely many; a set of slots
\* that is not larger counts no more.
LEMMA PendingFinite ==
  ASSUME IsFiniteSet(Slots), NEW m \in Metrics, NEW t \in Time
  PROVE  /\ IsFiniteSet(Pending(m, t))
         /\ Cardinality(Pending(m, t)) \in Nat
         /\ Cardinality(Pending(m, t)) <= Cardinality(Slots)
         /\ \A P \in SUBSET Pending(m, t) :
              Cardinality(P) \in Nat /\ Cardinality(P) <= Cardinality(Pending(m, t))
<1> DEFINE S == Pending(m, t)
<1>1. S \subseteq Slots
  BY DEF Pending
<1> HIDE DEF S
<1>2. IsFiniteSet(S) /\ Cardinality(S) <= Cardinality(Slots)
  BY <1>1, FS_Subset
<1>3. Cardinality(S) \in Nat
  BY <1>2, FS_CardinalityType
<1>4. ASSUME NEW P \in SUBSET S
      PROVE  Cardinality(P) \in Nat /\ Cardinality(P) <= Cardinality(S)
  <2>1. IsFiniteSet(P) /\ Cardinality(P) <= Cardinality(S)
    BY <1>2, FS_Subset
  <2> QED
    BY <2>1, FS_CardinalityType
<1> QED
  BY <1>2, <1>3, <1>4 DEF S

\* A time is charted a natural number of times.
LEMMA TimesType ==
  ASSUME TypeOK, NEW m \in Metrics, NEW t \in Time
  PROVE  Times(m, t) \in Nat
<1>1. t \in Nat /\ data[m] \in Seq(Time \X Time)
  BY DEF TypeOK, Time
<1> QED
  BY <1>1, PlacesFinite DEF Times

\* What is newer than Heapster's newest sample has no place in a chart.
LEMMA NothingNewer ==
  ASSUME TypeOK, NewestInv, NEW m \in Metrics, NEW t \in Time, t > head["usage"]
  PROVE  Times(m, t) = 0
<1>1. Places(data[m], t) = {}
  <2>1. ASSUME NEW i \in 1 .. Len(data[m]), data[m][i][1] = t
        PROVE  FALSE
    <3>1. t <= head["usage"]
      BY <2>1 DEF NewestInv, ChartsInv
    <3>2. t \in Nat /\ head["usage"] \in Nat
      BY PollConstants DEF TypeOK, Kinds, Time
    <3> QED
      BY <3>1, <3>2
  <2> QED
    BY <2>1 DEF Places
<1> QED
  BY <1>1, FS_EmptySet DEF Times

\* A step that touches no chart and lets no chain chart more keeps the
\* invariant.
LEMMA SharedUpdate ==
  ASSUME IsFiniteSet(Slots), TypeOK, SharedInv, UNCHANGED <<stamp, data, charts>>,
         \A m \in Metrics, t \in Time : Pending(m, t)' \subseteq Pending(m, t)
  PROVE  SharedInv'
<1>1. ASSUME NEW m \in Metrics, NEW t \in Time
      PROVE  Times(m, t)' + Cardinality(Pending(m, t)') <= Room(charts)
  <2> DEFINE a == Times(m, t)
             p == Cardinality(Pending(m, t))
             q == Cardinality(Pending(m, t)')
             b == Room(charts)
  <2>1. Times(m, t)' = a /\ a \in Nat
    BY TimesType DEF Times
  <2>2. p \in Nat /\ q \in Nat /\ q <= p
    BY PendingFinite
  <2>3. a + p <= b
    BY DEF SharedInv
  <2>4. b \in Nat
    <3>1. charts \in Nat
      BY DEF TypeOK
    <3> QED
      BY <3>1, RoomGrows
  <2> HIDE DEF a, p, q, b
  <2>5. a + q <= b
    BY <2>1, <2>2, <2>3, <2>4
  <2> QED
    BY <2>1, <2>5 DEF q, b
<1>2. ASSUME NEW m \in Metrics, NEW t \in Time, t > stamp
      PROVE  Times(m, t)' <= Room(charts - 1)
  BY <1>2 DEF SharedInv, Times
<1> QED
  BY <1>1, <1>2 DEF SharedInv

\* Replacing one chain by one that may chart no more lets none chart more.
LEMMA PendingUpdate ==
  ASSUME TypeOK, NEW r \in Slots, NEW m \in Metrics, NEW c,
         \A t \in Time : MayChart(c, t) => MayChart(chain[r][m], t),
         chain' = [chain EXCEPT ![r][m] = c]
  PROVE  \A n \in Metrics, t \in Time : Pending(n, t)' \subseteq Pending(n, t)
<1> SUFFICES ASSUME NEW n \in Metrics, NEW t \in Time, NEW q \in Slots,
                    MayChart(chain'[q][n], t)
             PROVE  MayChart(chain[q][n], t)
  BY DEF Pending, MayChart
<1>1. chain'[q][n] = IF q = r /\ n = m THEN c ELSE chain[q][n]
  BY DEF TypeOK
<1> QED
  BY <1>1

\* A poll asks only for what is ahead of the cursor, which has room left.
LEMMA PollShares ==
  ASSUME IsFiniteSet(Slots), TypeOK, SharedInv, NEW r \in Slots, Poll(r)
  PROVE  SharedInv'
<1> DEFINE c == [IdleChain EXCEPT !.pc = "usageSent", !.start = stamp]
<1>1. c.pc = "usageSent" /\ c.start = stamp
  BY DEF IdleChain
<1>2. \A t \in Time : MayChart(c, t) <=> t > stamp
  BY <1>1 DEF MayChart
<1> HIDE DEF c
<1>3. chain' = [chain EXCEPT ![r] = [m \in Metrics |-> c]] /\ UNCHANGED <<stamp, data, charts>>
  BY DEF Poll, c
<1>4. ASSUME NEW m \in Metrics, NEW t \in Time
      PROVE  Times(m, t)' + Cardinality(Pending(m, t)') <= Room(charts)
  <2> DEFINE a == Times(m, t)
             k == Cardinality(Slots)
             p == Cardinality(Pending(m, t))
             q == Cardinality(Pending(m, t)')
  <2>1. Times(m, t)' = a /\ a \in Nat
    BY <1>3, TimesType DEF Times
  <2>2. p \in Nat /\ a + p <= Room(charts)
    BY PendingFinite DEF SharedInv
  <2>3. ASSUME NEW s \in Slots
        PROVE  chain'[s][m] = IF s = r THEN c ELSE chain[s][m]
    BY <1>3 DEF TypeOK
  <2>4. charts \in Nat /\ charts - 1 \in Nat /\ (charts - 1) + 1 = charts
    BY DEF TypeOK
  <2>5. CASE t > stamp
    <3>1. a <= Room(charts - 1)
      BY <2>5 DEF SharedInv
    <3>2. q \in Nat /\ q <= k
      <4> DEFINE Q == Pending(m, t)'
      <4>1. Q \subseteq Slots
        BY DEF Pending
      <4> HIDE DEF Q
      <4>2. IsFiniteSet(Q) /\ Cardinality(Q) <= Cardinality(Slots)
        BY <4>1, FS_Subset
      <4>3. Cardinality(Q) \in Nat
        BY <4>2, FS_CardinalityType
      <4> QED
        BY <4>2, <4>3 DEF Q
    <3>3. Room(charts) = Room(charts - 1) + k /\ Room(charts - 1) \in Nat /\ k \in Nat
      <4> DEFINE d == charts - 1
      <4>1. d \in Nat /\ d + 1 = charts
        BY <2>4
      <4> HIDE DEF d
      <4>2. Room(d + 1) = Room(d) + k /\ Room(d) \in Nat /\ k \in Nat
        BY <4>1, RoomGrows
      <4> QED
        BY <4>1, <4>2 DEF d
    <3> HIDE DEF a, k, p, q
    <3> QED
      BY <2>1, <3>1, <3>2, <3>3 DEF q
  <2>6. CASE ~(t > stamp)
    <3>1. Pending(m, t)' \subseteq Pending(m, t)
      <4> SUFFICES ASSUME NEW s \in Slots, MayChart(chain'[s][m], t)
                   PROVE  MayChart(chain[s][m], t)
        BY DEF Pending, MayChart
      <4> QED
        BY <1>2, <2>3, <2>6
    <3>2. q \in Nat /\ q <= p
      BY <3>1, PendingFinite
    <3>3. Room(charts) \in Nat
      BY <2>4, RoomGrows
    <3> HIDE DEF a, p, q
    <3> QED
      BY <2>1, <2>2, <3>2, <3>3 DEF q
  <2> QED
    BY <2>5, <2>6
<1>5. ASSUME NEW m \in Metrics, NEW t \in Time, t > stamp
      PROVE  Times(m, t)' <= Room(charts - 1)
  BY <1>3, <1>5 DEF SharedInv, Times
<1> QED
  BY <1>3, <1>4, <1>5 DEF SharedInv

\* No step of the network or of the first callback lets a chain chart more than
\* what its poll has asked for.
LEMMA ChainKeepsShare ==
  ASSUME TypeOK, NewestInv, NEW r \in Slots, NEW m \in Metrics,
         \/ ServeUsage(r, m) \/ ServeLimit(r, m) \/ ServeEmpty(r, m)
         \/ TakeUsage(r, m) \/ Postpone(r, m) \/ LoseMetric(r, m)
  PROVE  /\ \A n \in Metrics, t \in Time : Pending(n, t)' \subseteq Pending(n, t)
         /\ UNCHANGED <<stamp, data, charts>>
<1> DEFINE o == chain[r][m]
<1>1. o \in Chains /\ NewestChain(o)
  BY DEF TypeOK, NewestInv
<1>2. \E c : /\ \A t \in Time : MayChart(c, t) => MayChart(o, t)
             /\ chain' = [chain EXCEPT ![r][m] = c]
  <2>1. CASE ServeUsage(r, m)
    <3> DEFINE s == o.start
               b == Since(s, "usage")
               c == [o EXCEPT !.pc = "usageBack", !.resp = b]
    <3>1. NoMetrics(b) \/ b.from >= s
      <4>1. head["usage"] \in Nat /\ s \in Nat
        BY <1>1, PollConstants DEF TypeOK, Kinds, Chains, Time
      <4> HIDE DEF s
      <4> QED
        BY <4>1, PollConstants DEF Since, NoMetrics, Size, NoBatch, LaterOf
    <3>2. c.pc = "usageBack" /\ c.resp = b
      BY <1>1 DEF Chains
    <3>3. chain' = [chain EXCEPT ![r][m] = c] /\ o.pc = "usageSent"
      BY <2>1 DEF ServeUsage
    <3>4. b.from \in Nat /\ s \in Nat
      <4>1. s \in Time /\ "usage" \in Kinds /\ head \in [Kinds -> Time]
        BY <1>1 DEF TypeOK, Chains, Kinds
      <4>2. b \in Batches
        BY <4>1, SinceType
      <4> QED
        BY <4>1, <4>2 DEF Batches, Time
    <3> HIDE DEF b, c, o
    <3>5. \A t \in Time : MayChart(c, t) => MayChart(o, t)
      BY <3>1, <3>2, <3>3, <3>4 DEF MayChart, Time
    <3> QED
      BY <3>3, <3>5
  <2>2. CASE ServeLimit(r, m)
    <3> DEFINE b == Since(o.start, "limit")
               c == [o EXCEPT !.pc = "limitBack", !.resp = b]
    <3>1. c.pc = "limitBack" /\ c.usage = o.usage
      BY <1>1 DEF Chains
    <3>2. chain' = [chain EXCEPT ![r][m] = c] /\ o.pc = "limitSent"
      BY <2>2 DEF ServeLimit
    <3> HIDE DEF b, c, o
    <3>3. \A t \in Time : MayChart(c, t) => MayChart(o, t)
      BY <3>1, <3>2 DEF MayChart
    <3> QED
      BY <3>2, <3>3
  <2>3. CASE ServeEmpty(r, m)
    <3>1. PICK q \in {"usageBack", "limitBack"} :
            /\ chain' = [chain EXCEPT ![r][m] = [o EXCEPT !.pc = q]]
            /\ o.pc = IF q = "usageBack" THEN "usageSent" ELSE "limitSent"
      BY <2>3 DEF ServeEmpty
    <3> DEFINE c == [o EXCEPT !.pc = q]
    <3>2. c.pc = q /\ c.resp = o.resp /\ c.start = o.start /\ c.usage = o.usage
      BY <1>1 DEF Chains
    <3>3. NoMetrics(c.resp)
      BY <1>1, <3>1, <3>2 DEF NewestChain, NoMetrics, Size, NoBatch
    <3> HIDE DEF o
    <3>4. chain' = [chain EXCEPT ![r][m] = c]
      BY <3>1
    <3> HIDE DEF c
    <3>5. \A t \in Time : MayChart(c, t) => MayChart(o, t)
      BY <3>1, <3>2, <3>3 DEF MayChart
    <3> QED
      BY <3>4, <3>5
  <2>4. CASE TakeUsage(r, m)
    <3> DEFINE c == [pc |-> "limitSent", start |-> stamp, usage |-> o.resp, resp |-> NoBatch]
    <3>1. c.pc = "limitSent" /\ c.usage = o.resp
      OBVIOUS
    <3>2. /\ chain' = [chain EXCEPT ![r][m] = c]
          /\ o.pc = "usageBack" /\ ~NoMetrics(o.resp)
      BY <2>4 DEF TakeUsage
    <3> HIDE DEF c, o
    <3>3. \A t \in Time : MayChart(c, t) => MayChart(o, t)
      BY <3>1, <3>2 DEF MayChart
    <3> QED
      BY <3>2, <3>3
  <2>5. CASE Postpone(r, m) \/ LoseMetric(r, m)
    <3>1. \A t \in Time : ~MayChart(IdleChain, t)
      BY DEF IdleChain, MayChart
    <3> QED
      BY <2>5, <3>1 DEF Postpone, LoseMetric
  <2> QED
    BY <2>1, <2>2, <2>3, <2>4, <2>5
<1>3. UNCHANGED <<stamp, data, charts>>
  BY DEF ServeUsage, ServeLimit, ServeEmpty, TakeUsage, Postpone, LoseMetric
<1> HIDE DEF o
<1>4. PICK c : /\ \A t \in Time : MayChart(c, t) => MayChart(chain[r][m], t)
               /\ chain' = [chain EXCEPT ![r][m] = c]
  BY <1>2 DEF o
<1>5. \A n \in Metrics, t \in Time : Pending(n, t)' \subseteq Pending(n, t)
  BY <1>4, PendingUpdate
<1> QED
  BY <1>3, <1>5

\* A chain that charts a time once more gives its room for it up.
LEMMA RoomUsed ==
  ASSUME IsFiniteSet(Slots), NEW m \in Metrics, NEW t \in Time,
         NEW r \in Slots, NEW P, P \subseteq Pending(m, t) \ {r}, r \in Pending(m, t)
  PROVE  /\ Cardinality(P) \in Nat
         /\ Cardinality(P) + 1 <= Cardinality(Pending(m, t))
<1> DEFINE S == Pending(m, t)
<1>1. IsFiniteSet(S) /\ Cardinality(S) \in Nat
  BY PendingFinite
<1>2. r \in S /\ P \subseteq S \ {r}
  OBVIOUS
<1> HIDE DEF S
<1>3. IsFiniteSet(S \ {r}) /\ Cardinality(S \ {r}) = Cardinality(S) - 1
  BY <1>1, <1>2, FS_RemoveElement
<1>4. IsFiniteSet(P) /\ Cardinality(P) <= Cardinality(S \ {r})
  BY <1>2, <1>3, FS_Subset
<1>5. Cardinality(P) \in Nat
  BY <1>4, FS_CardinalityType
<1> QED
  BY <1>1, <1>3, <1>4, <1>5 DEF S

\* The second callback charts each time at most once, and only times that its
\* chain had room for.
LEMMA TakeLimitShares ==
  ASSUME IsFiniteSet(Slots), OldestFirst, TypeOK, TypeOK', ChainInv, NewestInv, SharedInv,
         NEW r \in Slots, NEW m \in Metrics, TakeLimit(r, m)
  PROVE  SharedInv'
<1> DEFINE h == head["usage"]
           o == chain[r][m]
           f == LaterOf(o.usage.from, o.resp.from)
<1>1. o \in Chains /\ NewestChain(o) /\ o.pc = "limitBack"
  BY DEF TypeOK, NewestInv, TakeLimit
<1>2. PICK ps \in Seq(Time \X Time) :
        /\ data' = [data EXCEPT ![m] = data[m] \o ps]
        /\ lastLimit' = [lastLimit EXCEPT ![m] = h]
        /\ stamp' = h
        /\ \A i \in 1 .. Len(ps) : ps[i] = <<(h + 1) - i, (h + 1) - i>>
        /\ Len(ps) = h - f
  BY <1>1, TakeLimitNewest
<1>3. charts' = charts /\ chain' = [chain EXCEPT ![r][m] = IdleChain]
  BY DEF TakeLimit
<1>4. h \in Nat /\ f \in Nat /\ o.usage.from \in Nat /\ o.usage.from <= f
  <2>1. h \in Nat
    BY PollConstants DEF TypeOK, Kinds, Time
  <2>2. o.usage.from \in Nat /\ o.resp.from \in Nat
    BY <1>1, PollConstants DEF Chains, Batches, Time
  <2> QED
    BY <2>1, <2>2 DEF LaterOf
<1>5. data[m] \in Seq(Time \X Time) /\ data'[m] = data[m] \o ps
  BY <1>2 DEF TypeOK
<1>6. \A n \in Metrics \ {m} : data'[n] = data[n]
  BY <1>2 DEF TypeOK
<1>7. \A t \in Time : ~MayChart(IdleChain, t)
  BY DEF IdleChain, MayChart
<1>8. \A n \in Metrics, t \in Time : Pending(n, t)' \subseteq Pending(n, t)
  BY <1>3, <1>7, PendingUpdate
<1>9. \A t \in Time : r \notin Pending(m, t)'
  <2>1. chain'[r][m] = IdleChain
    BY <1>3 DEF TypeOK
  <2> QED
    BY <2>1 DEF Pending, MayChart, IdleChain
<1>10. charts \in Nat /\ charts - 1 \in Nat /\ Room(charts) \in Nat /\ Room(charts - 1) \in Nat
  <2>1. charts \in Nat /\ charts - 1 \in Nat
    BY DEF TypeOK
  <2> QED
    BY <2>1, RoomGrows
<1>11. ASSUME NEW n \in Metrics, NEW t \in Time
       PROVE  Times(n, t)' + Cardinality(Pending(n, t)') <= Room(charts)
  <2> DEFINE a == Times(n, t)
             b == Times(n, t)'
             p == Cardinality(Pending(n, t))
             q == Cardinality(Pending(n, t)')
             k == Room(charts)
  <2>1. a \in Nat /\ b \in Nat /\ p \in Nat /\ q \in Nat /\ k \in Nat
    <3>1. a \in Nat /\ p \in Nat /\ q \in Nat
      BY <1>8, TimesType, PendingFinite
    <3>2. b \in Nat
      <4>1. t \in Nat
        BY DEF Time
      <4>2. data'[n] \in Seq(Time \X Time)
        BY DEF TypeOK
      <4> QED
        BY <4>1, <4>2, PlacesFinite DEF Times
    <3> QED
      BY <1>10, <3>1, <3>2
  <2>2. a + p <= k /\ q <= p
    BY <1>8, PendingFinite DEF SharedInv
  <2>3. ASSUME n # m PROVE b = a
    BY <1>6, <2>3 DEF Times
  <2>4. ASSUME n = m PROVE b <= a + 1 /\ (t > h \/ f >= t => b = a)
    <3>1. t \in Nat /\ a = Cardinality(Places(data[m], t))
                    /\ b = Cardinality(Places(data[m] \o ps, t))
      <4>1. t \in Nat
        BY DEF Time
      <4>2. a = Cardinality(Places(data[m], t)) /\ b = Cardinality(Places(data'[m], t))
        BY <2>4 DEF Times
      <4> QED
        BY <1>5, <4>1, <4>2
    <3>2. h - Len(ps) = f
      BY <1>2, <1>4
    <3> HIDE DEF a, b, h, f
    <3>3. b <= a + 1
      BY <1>2, <1>4, <1>5, <3>1, PlacesAfter
    <3>4. ASSUME t > h \/ f >= t PROVE b = a
      <4>1. t > h \/ h - Len(ps) >= t
        BY <3>2, <3>4
      <4> QED
        BY <1>2, <1>4, <1>5, <3>1, <4>1, PlacesNotReached, ZenonT(30)
    <3> QED
      BY <3>3, <3>4
  <2>5. ASSUME n = m, ~(t > h \/ f >= t) PROVE q + 1 <= p
    <3>1. t > o.usage.from
      BY <1>4, <2>5 DEF Time
    <3>2. r \in Pending(m, t)
      BY <1>1, <3>1 DEF Pending, MayChart
    <3>3. Pending(n, t)' \subseteq Pending(m, t) \ {r}
      BY <1>8, <1>9, <2>5
    <3> QED
      BY <2>5, <3>2, <3>3, RoomUsed
  <2> HIDE DEF a, b, p, q, k, h, f
  <2>6. b + q <= k
    BY <2>1, <2>2, <2>3, <2>4, <2>5
  <2> QED
    BY <2>6 DEF b, q, k
<1>12. ASSUME NEW n \in Metrics, NEW t \in Time, t > h
       PROVE  Times(n, t)' <= Room(charts - 1)
  <2>1. Times(n, t) = 0
    BY <1>12, NothingNewer
  <2>2. Times(n, t)' = Times(n, t)
    <3>1. CASE n # m
      BY <1>6, <3>1 DEF Times
    <3>2. CASE n = m
      <4>1. t \in Nat
        BY DEF Time
      <4>2. Times(n, t) = Cardinality(Places(data[m], t))
            /\ Times(n, t)' = Cardinality(Places(data[m] \o ps, t))
        <5>1. Times(n, t)' = Cardinality(Places(data'[m], t))
          BY <3>2 DEF Times
        <5> QED
          BY <1>5, <3>2, <5>1 DEF Times
      <4> HIDE DEF h, f
      <4>3. Cardinality(Places(data[m] \o ps, t)) = Cardinality(Places(data[m], t))
        BY <1>2, <1>4, <1>5, <1>12, <4>1, PlacesNotReached, ZenonT(30)
      <4> QED
        BY <4>2, <4>3
    <3> QED
      BY <3>1, <3>2
  <2> QED
    BY <1>10, <2>1, <2>2
<1> HIDE DEF h, o, f
<1> QED
  BY <1>2, <1>3, <1>11, <1>12 DEF SharedInv

\* Every step keeps the invariant, however many polls overlap.
LEMMA SharedStep ==
  ASSUME IsFiniteSet(Slots), OldestFirst, TypeOK, TypeOK', ChainInv, NewestInv, SharedInv,
         [Next]_vars
  PROVE  SharedInv'
<1>1. CASE \/ UNCHANGED vars
           \/ \E K \in SUBSET Kinds : Ingest(K)
           \/ \E r \in Slots : ServeStats(r) \/ TakeStats(r) \/ LoseStats(r)
  <2>1. UNCHANGED <<stamp, chain, data, charts>>
    BY <1>1 DEF vars, Ingest, ServeStats, TakeStats, LoseStats
  <2> QED
    BY <2>1, SharedUpdate DEF Pending, MayChart
<1>2. CASE RestartChart
  <2>1. UNCHANGED <<chain, data>> /\ charts' = charts + 1
    BY <1>2 DEF RestartChart
  <2>2. /\ charts' - 1 = charts
        /\ Room(charts) \in Nat /\ Cardinality(Slots) \in Nat
        /\ Room(charts') = Room(charts) + Cardinality(Slots)
    <3>1. charts \in Nat
      BY DEF TypeOK
    <3> QED
      BY <2>1, <3>1, RoomGrows
  <2>3. ASSUME NEW m \in Metrics, NEW t \in Time
        PROVE  /\ Times(m, t)' + Cardinality(Pending(m, t)') <= Room(charts')
               /\ Times(m, t)' <= Room(charts)
    <3> DEFINE a == Times(m, t)
               p == Cardinality(Pending(m, t))
    <3>1. Times(m, t)' = a /\ Cardinality(Pending(m, t)') = p
      BY <2>1 DEF Times, Pending, MayChart
    <3>2. a \in Nat /\ p \in Nat /\ a + p <= Room(charts)
      BY TimesType, PendingFinite DEF SharedInv
    <3> HIDE DEF a, p
    <3> QED
      BY <2>2, <3>1, <3>2
  <2> QED
    BY <2>2, <2>3 DEF SharedInv
<1>3. ASSUME NEW r \in Slots, Poll(r)
      PROVE  SharedInv'
  BY <1>3, PollShares
<1>4. ASSUME NEW r \in Slots, NEW m \in Metrics,
             \/ ServeUsage(r, m) \/ ServeLimit(r, m) \/ ServeEmpty(r, m)
             \/ TakeUsage(r, m) \/ Postpone(r, m) \/ LoseMetric(r, m)
      PROVE  SharedInv'
  BY <1>4, ChainKeepsShare, SharedUpdate
<1>5. ASSUME NEW r \in Slots, NEW m \in Metrics, TakeLimit(r, m)
      PROVE  SharedInv'
  BY <1>5, TakeLimitShares
<1> QED
  BY <1>1, <1>2, <1>3, <1>4, <1>5 DEF Next

\* The initial state has an empty chart and no chain.
LEMMA SharedInit == IsFiniteSet(Slots) /\ Init => SharedInv
<1> SUFFICES ASSUME IsFiniteSet(Slots), Init
             PROVE  SharedInv
  OBVIOUS
<1>1. \A t : Places(<<>>, t) = {}
  BY DEF Places
<1>2. Cardinality({}) = 0
  BY FS_EmptySet
<1>3. \A m \in Metrics, t \in Time : Times(m, t) = 0
  BY <1>1, <1>2 DEF Init, Times
<1>4. \A m \in Metrics, t \in Time : Pending(m, t) = {}
  BY DEF Init, Pending, MayChart, IdleChain
<1>5. charts \in Nat /\ charts - 1 \in Nat
  BY DEF Init
<1>6. Room(charts) \in Nat /\ Room(charts - 1) \in Nat
  BY <1>5, RoomGrows
<1>7. ASSUME NEW m \in Metrics, NEW t \in Time
      PROVE  /\ Times(m, t) + Cardinality(Pending(m, t)) <= Room(charts)
             /\ Times(m, t) <= Room(charts - 1)
  <2>1. Times(m, t) = 0 /\ Cardinality(Pending(m, t)) = 0
    BY <1>2, <1>3, <1>4
  <2> QED
    BY <1>6, <2>1
<1> QED
  BY <1>7 DEF SharedInv

LEMMA SharedInvariant ==
  ASSUME QuietRounds, MaxLag = 0, OldestFirst, IsFiniteSet(Slots)
  PROVE  Spec => [](TypeOK /\ NewestInv /\ SharedInv)
<1>1. Init => SharedInv
  BY SharedInit
<1>2. /\ TypeOK /\ TypeOK' /\ ChainInv /\ NewestInv /\ SharedInv /\ [Next]_vars
      => SharedInv'
  BY SharedStep
<1> QED
  BY <1>1, <1>2, NewestInvariant, PollTypeOK, PTL DEF Spec

\* A sample is charted at most once per slot and start.
LEMMA TimesBounded ==
  ASSUME IsFiniteSet(Slots), TypeOK, SharedInv, NEW m \in Metrics, NEW t \in Time
  PROVE  Times(m, t) <= Room(charts) /\ Room(charts) \in Nat
<1> DEFINE a == Times(m, t)
           p == Cardinality(Pending(m, t))
<1>1. a \in Nat /\ p \in Nat /\ a + p <= Room(charts)
  BY TimesType, PendingFinite DEF SharedInv
<1>2. Room(charts) \in Nat
  <2>1. charts \in Nat
    BY DEF TypeOK
  <2> QED
    BY <2>1, RoomGrows
<1> HIDE DEF a, p
<1>3. a <= Room(charts)
  BY <1>1, <1>2
<1> QED
  BY <1>2, <1>3 DEF a

\* In quiet rounds, with responses in ascending order, no sample is charted more
\* often than charting was started from the epoch by each of the polls that may
\* overlap, for any number of restarts, any retention and any loss.
THEOREM PollNoPointTwice ==
  ASSUME QuietRounds, MaxLag = 0, OldestFirst, IsFiniteSet(Slots)
  PROVE  Spec => []NoPointTwice
<1>1. TypeOK /\ SharedInv => NoPointTwice
  BY TimesBounded DEF NoPointTwice, Times, Places, Room
<1> QED
  BY <1>1, SharedInvariant, PTL

-----------------------------------------------------------------------------
(* How long a chart gets *)

\* A chart of times from 1 .. h that has each of them at most b times has at
\* most b * h points: number the points of every time, and no two points share
\* time and number.
LEMMA LengthBounded ==
  ASSUME NEW d \in Seq(Time \X Time), NEW h \in Nat, NEW b \in Nat,
         \A i \in 1 .. Len(d) : d[i][1] \in 1 .. h,
         \A t \in 1 .. h : Cardinality(Places(d, t)) <= b
  PROVE  Len(d) <= b * h
<1> DEFINE n == Len(d)
           Upto(i) == {j \in 1 .. i : d[j][1] = d[i][1]}
           f == [i \in 1 .. n |-> <<d[i][1], Cardinality(Upto(i))>>]
           S == 1 .. n
           T == (1 .. h) \X (1 .. b)
<1>1. n \in Nat
  OBVIOUS
<1>2. ASSUME NEW i \in S
      PROVE  /\ IsFiniteSet(Upto(i)) /\ Cardinality(Upto(i)) \in 1 .. b
             /\ \A j \in S : j < i /\ d[j][1] = d[i][1] =>
                  Cardinality(Upto(j)) < Cardinality(Upto(i))
  <2> DEFINE U == Upto(i)
             P == Places(d, d[i][1])
  <2>1. U \subseteq P /\ i \in U
    BY <1>1 DEF Places
  <2>2. IsFiniteSet(P) /\ Cardinality(P) <= b
    <3>1. d[i][1] \in Nat
      OBVIOUS
    <3> QED
      BY <3>1, PlacesFinite
  <2>3. ASSUME NEW j \in S, j < i, d[j][1] = d[i][1]
        PROVE  Upto(j) \subseteq U \ {i}
    BY <1>1, <2>3
  <2> HIDE DEF U, P, Upto
  <2>4. IsFiniteSet(U) /\ Cardinality(U) <= Cardinality(P)
    BY <2>1, <2>2, FS_Subset
  <2>5. Cardinality(U) \in Nat /\ Cardinality(P) \in Nat
    BY <2>2, <2>4, FS_CardinalityType
  <2>6. IsFiniteSet(U \ {i}) /\ Cardinality(U \ {i}) = Cardinality(U) - 1
    BY <2>1, <2>4, FS_RemoveElement
  <2>7. Cardinality(U \ {i}) \in Nat
    BY <2>6, FS_CardinalityType
  <2>8. Cardinality(U) \in 1 .. b
    BY <2>2, <2>4, <2>5, <2>6, <2>7
  <2>9. ASSUME NEW j \in S, j < i, d[j][1] = d[i][1]
        PROVE  Cardinality(Upto(j)) < Cardinality(U)
    <3> DEFINE V == Upto(j)
    <3>1. V \subseteq U \ {i}
      BY <2>3, <2>9
    <3> HIDE DEF V
    <3>2. IsFiniteSet(V) /\ Cardinality(V) <= Cardinality(U \ {i})
      BY <2>6, <3>1, FS_Subset
    <3>3. Cardinality(V) \in Nat
      BY <3>2, FS_CardinalityType
    <3>4. Cardinality(V) < Cardinality(U)
      BY <2>5, <2>6, <3>2, <3>3
    <3> QED
      BY <3>4 DEF V
  <2> QED
    BY <2>4, <2>8, <2>9 DEF U
<1> HIDE DEF Upto
<1>3. f \in [S -> T]
  BY <1>2
<1>4. \A i, j \in S : f[i] = f[j] => i = j
  <2> SUFFICES ASSUME NEW i \in S, NEW j \in S, f[i] = f[j]
               PROVE  i = j
    OBVIOUS
  <2>1. d[i][1] = d[j][1] /\ Cardinality(Upto(i)) = Cardinality(Upto(j))
    OBVIOUS
  <2>2. Cardinality(Upto(i)) \in Nat
    BY <1>2
  <2>3. ~(i < j) /\ ~(j < i)
    BY <1>2, <2>1, <2>2
  <2> QED
    BY <1>1, <2>3
<1>5. IsFiniteSet(S) /\ Cardinality(S) = n
  <2> HIDE DEF n
  <2>1. IsFiniteSet(1 .. n) /\ Cardinality(1 .. n) = IF 1 > n THEN 0 ELSE n - 1 + 1
    BY <1>1, FS_Interval
  <2> QED
    BY <1>1, <2>1
<1>6. IsFiniteSet(T) /\ Cardinality(T) = h * b
  <2> DEFINE A == 1 .. h
             B == 1 .. b
  <2>1. IsFiniteSet(A) /\ Cardinality(A) = h
    BY FS_Interval
  <2>2. IsFiniteSet(B) /\ Cardinality(B) = b
    BY FS_Interval
  <2> HIDE DEF A, B
  <2>3. IsFiniteSet(A \X B) /\ Cardinality(A \X B) = Cardinality(A) * Cardinality(B)
    BY <2>1, <2>2, FS_Product
  <2> QED
    BY <2>1, <2>2, <2>3 DEF A, B
<1>7. ~(Cardinality(T) < Cardinality(S))
  <2> HIDE DEF S, T, f
  <2> SUFFICES ASSUME Cardinality(T) < Cardinality(S)
               PROVE  FALSE
    OBVIOUS
  <2>1. \E i, j \in S : i # j /\ f[i] = f[j]
    BY <1>3, <1>5, <1>6, FS_PigeonHole
  <2> QED
    BY <1>4, <2>1
<1> HIDE DEF n, S, T
<1>8. n <= h * b
  BY <1>1, <1>5, <1>6, <1>7
<1> QED
  BY <1>8 DEF n

\* The points of a chart are samples: the epoch, from which charting starts, is
\* not one.
SamplesOnly == \A m \in Metrics : \A i \in 1 .. Len(data[m]) : data[m][i][1] > 0

LEMMA SamplesStep ==
  ASSUME OldestFirst, TypeOK, TypeOK', ChainInv, NewestInv, SamplesOnly, [Next]_vars
  PROVE  SamplesOnly'
<1>1. ASSUME NEW r \in Slots, NEW m \in Metrics, TakeLimit(r, m)
      PROVE  SamplesOnly'
  <2> DEFINE h == head["usage"]
             f == LaterOf(chain[r][m].usage.from, chain[r][m].resp.from)
  <2>1. chain[r][m] \in Chains /\ NewestChain(chain[r][m])
    BY DEF TypeOK, NewestInv
  <2>2. PICK ps \in Seq(Time \X Time) :
          /\ data' = [data EXCEPT ![m] = data[m] \o ps]
          /\ lastLimit' = [lastLimit EXCEPT ![m] = h]
          /\ stamp' = h
          /\ \A i \in 1 .. Len(ps) : ps[i] = <<(h + 1) - i, (h + 1) - i>>
          /\ Len(ps) = h - f
    BY <1>1, <2>1, TakeLimitNewest
  <2>3. h \in Nat /\ f \in Nat
    <3>1. h \in Nat
      BY PollConstants DEF TypeOK, Kinds, Time
    <3>2. chain[r][m].usage.from \in Nat /\ chain[r][m].resp.from \in Nat
      BY <2>1, PollConstants DEF Chains, Batches, Time
    <3> QED
      BY <3>1, <3>2 DEF LaterOf
  <2> HIDE DEF h, f
  <2>4. \A i \in 1 .. Len(ps) : ps[i][1] > 0
    BY <2>2, <2>3
  <2>5. data[m] \in Seq(Time \X Time) /\ data'[m] = data[m] \o ps
    BY <2>2 DEF TypeOK
  <2>6. ASSUME NEW n \in Metrics, NEW i \in 1 .. Len(data'[n])
        PROVE  data'[n][i][1] > 0
    <3>1. CASE n # m
      <4>1. data'[n] = data[n]
        BY <2>2, <3>1 DEF TypeOK
      <4> QED
        BY <2>6, <4>1 DEF SamplesOnly
    <3>2. CASE n = m /\ i <= Len(data[m])
      <4>1. i \in 1 .. Len(data[m]) /\ data'[n][i] = data[m][i]
        BY <2>5, <2>6, <3>2
      <4> QED
        BY <4>1 DEF SamplesOnly
    <3>3. CASE n = m /\ i > Len(data[m])
      <4> DEFINE k == Len(data[m])
      <4>1. /\ k \in Nat /\ Len(ps) \in Nat
            /\ Len(data[m] \o ps) = k + Len(ps)
            /\ \A j \in k + 1 .. k + Len(ps) : (data[m] \o ps)[j] = ps[j - k]
        BY <2>5
      <4>2. i \in 1 .. Len(data[m] \o ps) /\ i > k /\ data'[n][i] = (data[m] \o ps)[i]
        BY <2>5, <2>6, <3>3
      <4> HIDE DEF k
      <4>3. i \in k + 1 .. k + Len(ps) /\ i - k \in 1 .. Len(ps)
        BY <4>1, <4>2
      <4> QED
        BY <2>4, <4>1, <4>2, <4>3
    <3>4. i \in Nat /\ Len(data[m]) \in Nat
      BY <2>5
    <3> QED
      BY <3>1, <3>2, <3>3, <3>4
  <2> QED
    BY <2>6 DEF SamplesOnly
<1>2. CASE ~ \E r \in Slots, m \in Metrics : TakeLimit(r, m)
  <2>1. data' = data
    BY <1>2, OnlyTakeLimitCharts
  <2> QED
    BY <2>1 DEF SamplesOnly
<1> QED
  BY <1>1, <1>2

\* A chart, from which no point is ever removed, grows with the samples that
\* Heapster has and not with the polls that the page makes.
ChartsBounded ==
  \A m \in Metrics : Len(data[m]) <= (charts * Cardinality(Slots)) * head["usage"]

\* What PollNoPointTwice says of one sample, summed over all of them: under the
\* same hypotheses a chart is never longer than the samples that Heapster has,
\* times the starts and the polls that may overlap, for however long its page
\* stays open and polls.
THEOREM PollChartsBounded ==
  ASSUME QuietRounds, MaxLag = 0, OldestFirst, IsFiniteSet(Slots)
  PROVE  Spec => []ChartsBounded
<1>1. Init => SamplesOnly
  BY DEF Init, SamplesOnly
<1>2. TypeOK /\ TypeOK' /\ ChainInv /\ NewestInv /\ SamplesOnly /\ [Next]_vars => SamplesOnly'
  BY SamplesStep
<1>3. TypeOK /\ NewestInv /\ SharedInv /\ SamplesOnly => ChartsBounded
  <2> SUFFICES ASSUME TypeOK, NewestInv, SharedInv, SamplesOnly, NEW m \in Metrics
               PROVE  Len(data[m]) <= (charts * Cardinality(Slots)) * head["usage"]
    BY DEF ChartsBounded
  <2> DEFINE d == data[m]
             h == head["usage"]
             b == Room(charts)
  <2>1. d \in Seq(Time \X Time) /\ h \in Nat /\ h \in Time
    BY PollConstants DEF TypeOK, Kinds, Time
  <2>2. b \in Nat
    <3>1. charts \in Nat
      BY DEF TypeOK
    <3> QED
      BY <3>1, RoomGrows
  <2>3. ASSUME NEW i \in 1 .. Len(d)
        PROVE  d[i][1] \in 1 .. h
    <3>1. d[i][1] <= h /\ d[i][1] > 0
      BY DEF NewestInv, ChartsInv, SamplesOnly
    <3>2. d[i][1] \in Nat
      BY <2>1 DEF Time
    <3> QED
      BY <2>1, <3>1, <3>2
  <2>4. ASSUME NEW t \in 1 .. h
        PROVE  Cardinality(Places(d, t)) <= b
    <3>1. t \in Time
      BY <2>1, PollConstants DEF Time
    <3> QED
      BY <3>1, TimesBounded DEF Times
  <2> HIDE DEF d, h, b
  <2>5. Len(d) <= b * h
    BY <2>1, <2>2, <2>3, <2>4, LengthBounded
  <2> QED
    BY <2>5 DEF d, h, b, Room
<1> QED
  BY <1>1, <1>2, <1>3, SharedInvariant, PollTypeOK, PTL DEF Spec

=============================================================================
