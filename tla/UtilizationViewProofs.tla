------------------------ MODULE UtilizationViewProofs ------------------------
(***************************************************************************)
(* Proofs about the life of the utilization pages, for any number of them   *)
(* and any kinds, the namespace page with its two controller instances too. *)
(* PageInv says which instances can test and poll; ToldInv relates the      *)
(* messages to the limits that were replaced and to the tests under way;    *)
(* PromiseRuns says that $scope.pollPromise names a running interval.       *)
(***************************************************************************)
EXTENDS UtilizationView, TLAPS, SequenceTheorems

-----------------------------------------------------------------------------
(* Types *)

LEMMA TypeInit == Init => TypeOK
  BY ViewConstants
  DEF Init, TypeOK, Visits, Instances, Resources, NoTest, Tests

LEMMA OpenTypes == ASSUME NEW k \in PageKinds, TypeOK, Open(k) PROVE TypeOK'
  <1> DEFINE v == cur + 1
  <1> USE ViewConstants
  <1>1. v \in Visits /\ cur' \in 0 .. MaxVisits
    BY DEF TypeOK, Open, Visits
  <1>2. kind' \in [Visits -> PageKinds \cup {"none"}]
    BY <1>1 DEF TypeOK, Open
  <1>3. test' \in [Visits -> [Instances -> Tests]]
    <2>1. \A s \in [Instances -> Tests] :
            [test EXCEPT ![v] = s] \in [Visits -> [Instances -> Tests]]
      BY <1>1 DEF TypeOK
    <2>2. NoTest \in Tests
      BY DEF NoTest, Tests, Resources
    <2>3. [NoTest EXCEPT !.pc = "decided"] \in Tests
      BY DEF NoTest, Tests, Resources
    <2>4. [NoTest EXCEPT !.pc = "usage"] \in Tests
      BY DEF NoTest, Tests, Resources
    <2> QED BY <2>1, <2>2, <2>3, <2>4 DEF Open
  <1>4. limitLink' = limitLink /\ messages' = messages
    BY DEF Open
  <1>5. intervals' \subseteq Visits \X Instances
    BY <1>1 DEF TypeOK, Open, Instances
  <1>6. pollPromise' \in [Visits -> Instances \cup {0}]
    BY <1>1 DEF TypeOK, Open, Instances
  <1> QED BY <1>1, <1>2, <1>3, <1>4, <1>5, <1>6 DEF TypeOK

\* What Advance does to the tests
LEMMA AdvanceTypes ==
  ASSUME TypeOK, NEW v \in Visits, NEW c \in Instances, NEW t \in Tests,
         Advance(v, c, t)
  PROVE  /\ test' \in [Visits -> [Instances -> Tests]]
         /\ test'[v][c] = t
         /\ \A w \in Visits, d \in Instances :
              <<w, d>> # <<v, c>> => test'[w][d] = test[w][d]
  BY DEF TypeOK, Advance

\* The steps that only move a test on
Quiet(v, c) ==
  \/ \E u \in Usages : TakeUsage(v, c, u)
  \/ Postpone(v, c)
  \/ Retry(v, c)
  \/ Lose(v, c)

LEMMA QuietStep ==
  ASSUME TypeOK, NEW v \in Visits, NEW c \in Instances, Quiet(v, c)
  PROVE  /\ UNCHANGED <<cur, kind, limitLink, messages, intervals, pollPromise>>
         /\ test' \in [Visits -> [Instances -> Tests]]
         /\ test[v][c].pc \in {"usage", "limit", "wait"}
         /\ test'[v][c].pc \in {"usage", "limit", "wait", "dead"}
         /\ test'[v][c].of = test[v][c].of
         /\ \A w \in Visits, d \in Instances :
              <<w, d>> # <<v, c>> => test'[w][d] = test[w][d]
  <1> DEFINE t == test[v][c]
  <1>1. t \in Tests
    BY DEF TypeOK
  <1> HIDE DEF t
  <1>2. CASE \E u \in Usages : TakeUsage(v, c, u)
    <2>1. PICK u \in Usages : TakeUsage(v, c, u)
      BY <1>2
    <2> DEFINE n == [t EXCEPT !.pc = "limit", !.usage = u]
    <2>2. n \in Tests /\ n.pc = "limit" /\ n.of = t.of
      BY <1>1 DEF Tests
    <2>3. Advance(v, c, n) /\ t.pc = "usage"
      BY <2>1 DEF TakeUsage, t
    <2> HIDE DEF n
    <2> QED BY <2>1, <2>2, <2>3, AdvanceTypes DEF TakeUsage, t
  <1>3. CASE Postpone(v, c)
    <2> DEFINE n == [t EXCEPT !.pc = "wait", !.usage = 0]
    <2>2. n \in Tests /\ n.pc = "wait" /\ n.of = t.of
      BY <1>1 DEF Tests
    <2>3. Advance(v, c, n) /\ t.pc \in {"usage", "limit"}
      BY <1>3 DEF Postpone, t
    <2> HIDE DEF n
    <2> QED BY <1>3, <2>2, <2>3, AdvanceTypes DEF Postpone, t
  <1>4. CASE Retry(v, c)
    <2> DEFINE n == [t EXCEPT !.pc = "usage"]
    <2>2. n \in Tests /\ n.pc = "usage" /\ n.of = t.of
      BY <1>1 DEF Tests
    <2>3. Advance(v, c, n) /\ t.pc = "wait"
      BY <1>4 DEF Retry, t
    <2> HIDE DEF n
    <2> QED BY <1>4, <2>2, <2>3, AdvanceTypes DEF Retry, t
  <1>5. CASE Lose(v, c)
    <2> DEFINE n == [t EXCEPT !.pc = "dead", !.usage = 0]
    <2>2. n \in Tests /\ n.pc = "dead" /\ n.of = t.of
      BY <1>1 DEF Tests
    <2>3. Advance(v, c, n) /\ t.pc \in {"usage", "limit"}
      BY <1>5 DEF Lose, t
    <2> HIDE DEF n
    <2> QED BY <1>5, <2>2, <2>3, AdvanceTypes DEF Lose, t
  <1> QED BY <1>2, <1>3, <1>4, <1>5 DEF Quiet

\* What the arrival of the limits does: the resource's limit is replaced or
\* not, and then the memory test is followed by the CPU test and the CPU test
\* by the chart.
LEMMA LimitStep ==
  ASSUME TypeOK, NEW v \in Visits, NEW c \in Instances, NEW l \in Limits,
         TakeLimit(v, c, l)
  PROVE  /\ UNCHANGED <<cur, kind>>
         /\ test' \in [Visits -> [Instances -> Tests]]
         /\ test[v][c].pc = "limit"
         /\ test'[v][c].of = "cpu"
         /\ \A w \in Visits, d \in Instances :
              <<w, d>> # <<v, c>> => test'[w][d] = test[w][d]
         /\ \/ UNCHANGED <<limitLink, messages>>
            \/ ChangeLimit(v, c, test[v][c].of)
         /\ \/ /\ test[v][c].of = "memory"
               /\ test'[v][c].pc = "usage"
               /\ UNCHANGED <<intervals, pollPromise>>
            \/ /\ test[v][c].of = "cpu"
               /\ test'[v][c].pc = "decided"
               /\ StartChart(v, c)
  <1> DEFINE t == test[v][c]
             d == [t EXCEPT !.limit = l]
  <1>1. t \in Tests
    BY DEF TypeOK
  <1>2. /\ t.pc = "limit"
        /\ UNCHANGED <<cur, kind>>
        /\ UNCHANGED <<limitLink, messages>> \/ ChangeLimit(v, c, t.of)
        /\ NextTest(v, c, d)
    BY DEF TakeLimit
  <1> HIDE DEF t
  <1>3. d \in Tests /\ d.of = t.of
    BY <1>1 DEF Tests
  <1> HIDE DEF d
  <1>4. CASE /\ d.of = "memory"
             /\ Advance(v, c, [NoTest EXCEPT !.pc = "usage", !.of = "cpu"])
             /\ UNCHANGED <<intervals, pollPromise>>
    <2> DEFINE n == [NoTest EXCEPT !.pc = "usage", !.of = "cpu"]
    <2>1. n \in Tests /\ n.pc = "usage" /\ n.of = "cpu"
      BY DEF NoTest, Tests, Resources
    <2>2. Advance(v, c, n)
      BY <1>4
    <2> HIDE DEF n
    <2> QED BY <1>2, <1>3, <1>4, <2>1, <2>2, AdvanceTypes DEF t
  <1>5. CASE /\ d.of = "cpu"
             /\ Advance(v, c, [d EXCEPT !.pc = "decided"])
             /\ StartChart(v, c)
    <2> DEFINE n == [d EXCEPT !.pc = "decided"]
    <2>1. n \in Tests /\ n.pc = "decided" /\ n.of = "cpu"
      BY <1>3, <1>5 DEF Tests
    <2>2. Advance(v, c, n)
      BY <1>5
    <2> HIDE DEF n
    <2> QED BY <1>2, <1>3, <1>5, <2>1, <2>2, AdvanceTypes DEF t
  <1> QED BY <1>2, <1>4, <1>5 DEF NextTest

LEMMA LimitTypes ==
  ASSUME TypeOK, NEW v \in Visits, NEW c \in Instances, NEW l \in Limits,
         TakeLimit(v, c, l)
  PROVE  TypeOK'
  <1> DEFINE r == test[v][c].of
  <1>1. r \in Resources
    BY DEF TypeOK, Tests
  <1>2. /\ UNCHANGED <<limitLink, messages>> \/ ChangeLimit(v, c, r)
        /\ UNCHANGED <<intervals, pollPromise>> \/ StartChart(v, c)
        /\ UNCHANGED <<cur, kind>>
        /\ test' \in [Visits -> [Instances -> Tests]]
    BY LimitStep
  <1> HIDE DEF r
  <1>3. ASSUME ChangeLimit(v, c, r)
        PROVE  /\ limitLink' \in [Visits -> [Instances -> [Resources -> {"own", "fallback"}]]]
               /\ messages' \in [Visits -> Seq(Resources)]
    <2>1. Append(messages[v], r) \in Seq(Resources)
      BY <1>1 DEF TypeOK
    <2> QED BY <1>1, <1>3, <2>1 DEF TypeOK, ChangeLimit
  <1>4. ASSUME StartChart(v, c)
        PROVE  /\ intervals' \subseteq Visits \X Instances
               /\ pollPromise' \in [Visits -> Instances \cup {0}]
    BY <1>4 DEF TypeOK, StartChart
  <1> QED BY <1>2, <1>3, <1>4 DEF TypeOK

LEMMA TypeStep == TypeOK /\ [Next]_vars => TypeOK'
  <1> SUFFICES ASSUME TypeOK, [Next]_vars PROVE TypeOK'
    OBVIOUS
  <1>1. CASE \E k \in PageKinds : Open(k)
    BY <1>1, OpenTypes
  <1>2. ASSUME NEW v \in Visits, NEW c \in Instances, TestStep(v, c) PROVE TypeOK'
    <2>1. CASE Quiet(v, c)
      BY <2>1, QuietStep DEF TypeOK
    <2>2. CASE \E l \in Limits : TakeLimit(v, c, l)
      BY <2>2, LimitTypes
    <2> QED BY <1>2, <2>1, <2>2 DEF TestStep, Quiet
  <1>3. CASE UNCHANGED vars
    BY <1>3 DEF vars, TypeOK
  <1> QED BY <1>1, <1>2, <1>3 DEF Next

\* Every variable of the pages keeps its type, on whatever sequence of pages,
\* answers, timeouts and lost requests.
THEOREM ViewTypes == Spec => []TypeOK
  BY TypeInit, TypeStep, PTL DEF Spec

-----------------------------------------------------------------------------
(* Who polls *)

\* A page that was not opened yet has nothing.
Untouched ==
  \A v \in Visits : v > cur =>
    /\ messages[v] = <<>>
    /\ \A c \in Instances :
         /\ test[v][c].pc = "none"
         /\ \A r \in Resources : limitLink[v][c][r] = "own"
         /\ <<v, c>> \notin intervals

\* Only the instances that a page's controller runs test anything.
TestsOfControllers ==
  \A v \in Visits, c \in Instances :
    test[v][c].pc # "none" => c \in Controllers(kind[v])

PageInv == Untouched /\ TestsOfControllers /\ PollersHaveDecided

LEMMA PageInit == Init => PageInv
  BY ViewConstants
  DEF Init, PageInv, Untouched, TestsOfControllers, PollersHaveDecided,
      Visits, Instances, Resources, NoTest

LEMMA OpenPage ==
  ASSUME TypeOK, PageInv, NEW k \in PageKinds, Open(k) PROVE PageInv'
  <1> DEFINE v == cur + 1
  <1> USE ViewConstants
  <1>1. v \in Visits /\ v > cur /\ cur' = v /\ cur \in Int
    BY DEF TypeOK, Open, Visits
  <1>2. /\ \A w \in Visits \ {v} : test'[w] = test[w] /\ kind'[w] = kind[w]
        /\ kind'[v] = k
        /\ UNCHANGED <<limitLink, messages>>
        /\ intervals' \subseteq intervals \cup {<<v, 1>>}
    BY <1>1 DEF TypeOK, Open
  <1>3. \A c \in Instances :
          /\ c \notin Controllers(k) => test'[v][c].pc = "none"
          /\ c \in Controllers(k) /\ ~HasFallback(k) => test'[v][c].pc = "decided"
    BY <1>1 DEF TypeOK, Open, NoTest
  <1>4. <<v, 1>> \in intervals' => 1 \in Controllers(k) /\ ~HasFallback(k)
    <2>1. <<v, 1>> \notin intervals
      BY <1>1 DEF PageInv, Untouched, Instances
    <2> QED BY <2>1 DEF Open, Controllers, Instances
  <1>5. Untouched'
    BY <1>1, <1>2 DEF PageInv, Untouched, Visits
  <1>6. TestsOfControllers'
    BY <1>1, <1>2, <1>3 DEF PageInv, TestsOfControllers
  <1>7. PollersHaveDecided'
    <2> SUFFICES ASSUME NEW p \in intervals'
                 PROVE  /\ test'[p[1]][p[2]].pc = "decided"
                        /\ p[2] \in Controllers(kind'[p[1]])
      BY DEF PollersHaveDecided
    <2>1. CASE p = <<v, 1>>
      BY <2>1, <1>2, <1>3, <1>4 DEF Instances
    <2>2. CASE p # <<v, 1>>
      <3>1. p \in intervals /\ p \in Visits \X Instances
        BY <2>2, <1>2 DEF TypeOK
      <3>2. p[1] # v
        BY <3>1, <1>1 DEF PageInv, Untouched
      <3> QED BY <3>1, <3>2, <1>2 DEF PageInv, PollersHaveDecided
    <2> QED BY <2>1, <2>2
  <1> QED BY <1>5, <1>6, <1>7 DEF PageInv

LEMMA QuietPage ==
  ASSUME TypeOK, PageInv, NEW v \in Visits, NEW c \in Instances, Quiet(v, c)
  PROVE  PageInv'
  <1>1. v <= cur /\ <<v, c>> \notin intervals /\ c \in Controllers(kind[v])
    <2>1. test[v][c].pc \notin {"none", "decided"}
      BY QuietStep
    <2> QED BY <2>1, ViewConstants DEF PageInv, Untouched, TestsOfControllers,
                   PollersHaveDecided, TypeOK, Visits
  <1>2. Untouched'
    <2>1. /\ UNCHANGED <<cur, limitLink, messages, intervals>>
          /\ \A w \in Visits, d \in Instances :
               <<w, d>> # <<v, c>> => test'[w][d] = test[w][d]
      BY QuietStep
    <2>2. \A w \in Visits : w > cur => w # v
      BY <1>1, ViewConstants DEF TypeOK, Visits
    <2> QED BY <2>1, <2>2 DEF PageInv, Untouched
  <1>3. TestsOfControllers'
    BY <1>1, QuietStep DEF PageInv, TestsOfControllers
  <1>4. PollersHaveDecided'
    <2> SUFFICES ASSUME NEW p \in intervals
                 PROVE  /\ test'[p[1]][p[2]].pc = "decided"
                        /\ p[2] \in Controllers(kind[p[1]])
      BY QuietStep DEF PollersHaveDecided
    <2>1. p \in Visits \X Instances /\ p # <<v, c>>
      BY <1>1 DEF TypeOK
    <2>2. test'[p[1]][p[2]] = test[p[1]][p[2]]
      BY <2>1, QuietStep
    <2> QED BY <2>2 DEF PageInv, PollersHaveDecided
  <1> QED BY <1>2, <1>3, <1>4 DEF PageInv

LEMMA LimitPage ==
  ASSUME TypeOK, PageInv, NEW v \in Visits, NEW c \in Instances, NEW l \in Limits,
         TakeLimit(v, c, l)
  PROVE  PageInv'
  <1>0. /\ UNCHANGED <<cur, kind>>
        /\ test[v][c].pc = "limit"
        /\ \A w \in Visits, d \in Instances :
             <<w, d>> # <<v, c>> => test'[w][d] = test[w][d]
        /\ UNCHANGED <<limitLink, messages>> \/ ChangeLimit(v, c, test[v][c].of)
        /\ \/ UNCHANGED intervals
           \/ test'[v][c].pc = "decided" /\ intervals' = intervals \cup {<<v, c>>}
    BY LimitStep DEF StartChart
  <1>1. v <= cur /\ <<v, c>> \notin intervals /\ c \in Controllers(kind[v])
    BY <1>0, ViewConstants DEF PageInv, Untouched, TestsOfControllers,
                   PollersHaveDecided, TypeOK, Visits
  <1>2. Untouched'
    <2> SUFFICES ASSUME NEW w \in Visits, w > cur
                 PROVE  /\ messages'[w] = <<>>
                        /\ \A d \in Instances :
                             /\ test'[w][d].pc = "none"
                             /\ \A r \in Resources : limitLink'[w][d][r] = "own"
                             /\ <<w, d>> \notin intervals'
      BY <1>0 DEF Untouched
    <2>1. w # v
      BY <1>1, ViewConstants DEF TypeOK, Visits
    <2>2. messages'[w] = messages[w] /\ limitLink'[w] = limitLink[w]
      BY <2>1, <1>0 DEF ChangeLimit, TypeOK
    <2> QED BY <2>1, <2>2, <1>0 DEF PageInv, Untouched
  <1>3. TestsOfControllers'
    BY <1>0, <1>1 DEF PageInv, TestsOfControllers
  <1>4. PollersHaveDecided'
    <2> SUFFICES ASSUME NEW p \in intervals'
                 PROVE  /\ test'[p[1]][p[2]].pc = "decided"
                        /\ p[2] \in Controllers(kind[p[1]])
      BY <1>0 DEF PollersHaveDecided
    <2>1. CASE p = <<v, c>>
      BY <2>1, <1>0, <1>1
    <2>2. CASE p # <<v, c>>
      <3>1. p \in intervals /\ p \in Visits \X Instances
        BY <2>2, <1>0 DEF TypeOK
      <3>2. test'[p[1]][p[2]] = test[p[1]][p[2]]
        BY <2>2, <3>1, <1>0
      <3> QED BY <3>1, <3>2 DEF PageInv, PollersHaveDecided
    <2> QED BY <2>1, <2>2
  <1> QED BY <1>2, <1>3, <1>4 DEF PageInv

LEMMA PageStep == TypeOK /\ PageInv /\ [Next]_vars => PageInv'
  <1> SUFFICES ASSUME TypeOK, PageInv, [Next]_vars PROVE PageInv'
    OBVIOUS
  <1>1. CASE \E k \in PageKinds : Open(k)
    BY <1>1, OpenPage
  <1>2. ASSUME NEW v \in Visits, NEW c \in Instances, TestStep(v, c) PROVE PageInv'
    <2>1. CASE Quiet(v, c)
      BY <2>1, QuietPage
    <2>2. CASE \E l \in Limits : TakeLimit(v, c, l)
      BY <2>2, LimitPage
    <2> QED BY <1>2, <2>1, <2>2 DEF TestStep, Quiet
  <1>3. CASE UNCHANGED vars
    BY <1>3 DEF vars, PageInv, Untouched, TestsOfControllers, PollersHaveDecided
  <1> QED BY <1>1, <1>2, <1>3 DEF Next

\* No page polls before the limit tests of the polling instance are over, nor
\* for an instance its controller did not run, for every kind of page and
\* also after the page was left.
THEOREM PollingAfterTests == Spec => []PollersHaveDecided
  <1>1. PageInv => PollersHaveDecided
    BY DEF PageInv
  <1> QED BY <1>1, ViewTypes, PageInit, PageStep, PTL DEF Spec

-----------------------------------------------------------------------------
(* Messages and replaced limits *)

\* Both instances chart the fallback limits of the CPU.
BothCPUs(v) ==
  /\ Controllers(kind[v]) = Instances
  /\ \A c \in Instances : Replaced(v, c, "cpu")

\* ReplacementsTold of one page: the memory message is there once because it
\* can only be the first.
Told(v) ==
  /\ Len(messages[v]) <= 3
  /\ \A i \in 1 .. Len(messages[v]) : messages[v][i] = "memory" => i = 1
  /\ \A i, j \in 1 .. Len(messages[v]) :
       messages[v][i] = "cpu" /\ messages[v][j] = "cpu" /\ i # j => BothCPUs(v)
  /\ \A i \in 1 .. Len(messages[v]) :
       \E c \in Controllers(kind[v]) : Replaced(v, c, messages[v][i])
  /\ \A c \in Instances : Replaced(v, c, "cpu") =>
       \E i \in 1 .. Len(messages[v]) : messages[v][i] = "cpu"
  /\ \A c \in Instances : Replaced(v, c, "memory") => messages[v] # <<>>

\* As long as an instance has not replaced its CPU limit, the list has room
\* for that message.
RoomForCPU(v) ==
  /\ (\A c \in Instances : ~Replaced(v, c, "cpu")) => Len(messages[v]) <= 1
  /\ (\E c \in Instances : ~Replaced(v, c, "cpu")) => Len(messages[v]) <= 2
  /\ \A c \in Instances : test[v][c].pc # "decided" => ~Replaced(v, c, "cpu")

\* The memory test comes first, so it finds no message of its own instance in
\* the list: only another instance can keep the memory message out.
MemoryTold(v) ==
  /\ \A c \in Instances : test[v][c].of = "memory" =>
       \A r \in Resources : ~Replaced(v, c, r)
  /\ Controllers(kind[v]) # Instances =>
       \A c \in Instances : Replaced(v, c, "memory") =>
         \E i \in 1 .. Len(messages[v]) : messages[v][i] = "memory"

ToldInv == \A v \in Visits : Told(v) /\ RoomForCPU(v) /\ MemoryTold(v)

LEMMA ControllersAreInstances ==
  ASSUME NEW k PROVE Controllers(k) \subseteq Instances
  BY DEF Controllers, Instances

\* Only the namespace page has two.
LEMMA OneOrBoth ==
  ASSUME NEW k, NEW c \in Controllers(k), NEW d \in Controllers(k), c # d
  PROVE  Controllers(k) = Instances
  BY DEF Controllers, Instances

LEMMA NothingToTell ==
  ASSUME NEW v \in Visits, messages[v] = <<>>,
         \A c \in Instances, r \in Resources : limitLink[v][c][r] = "own"
  PROVE  Told(v) /\ RoomForCPU(v) /\ MemoryTold(v)
  <1>1. Len(messages[v]) = 0
    OBVIOUS
  <1>2. \A c \in Instances : ~Replaced(v, c, "cpu") /\ ~Replaced(v, c, "memory")
    BY DEF Replaced, Resources
  <1>3. \A c \in Instances, q \in Resources : ~Replaced(v, c, q)
    BY DEF Replaced
  <1> QED BY <1>1, <1>2, <1>3 DEF Told, RoomForCPU, MemoryTold

LEMMA ToldInit == Init => ToldInv
  <1> SUFFICES ASSUME Init, NEW v \in Visits
               PROVE  Told(v) /\ RoomForCPU(v) /\ MemoryTold(v)
    BY DEF ToldInv
  <1>1. messages[v] = <<>>
    BY DEF Init
  <1>2. \A c \in Instances, r \in Resources : limitLink[v][c][r] = "own"
    BY DEF Init
  <1> QED BY <1>1, <1>2, NothingToTell

\* What is true of a page stays true while its messages, limits and kind do
\* not change, no decision is taken back and no memory test comes again.
LEMMA ToldKept ==
  ASSUME NEW v \in Visits, Told(v), RoomForCPU(v), MemoryTold(v),
         messages'[v] = messages[v], limitLink'[v] = limitLink[v], kind'[v] = kind[v],
         \A c \in Instances :
           /\ test[v][c].pc = "decided" => test'[v][c].pc = "decided"
           /\ test'[v][c].of = "memory" => test[v][c].of = "memory"
  PROVE  Told(v)' /\ RoomForCPU(v)' /\ MemoryTold(v)'
  <1>1. \A c, r : Replaced(v, c, r)' <=> Replaced(v, c, r)
    BY DEF Replaced
  <1>2. Told(v)'
    BY <1>1 DEF Told, BothCPUs
  <1>3. RoomForCPU(v)'
    BY <1>1 DEF RoomForCPU
  <1>4. MemoryTold(v)'
    BY <1>1 DEF MemoryTold
  <1> QED BY <1>2, <1>3, <1>4

LEMMA OpenTold ==
  ASSUME TypeOK, PageInv, ToldInv, NEW k \in PageKinds, Open(k) PROVE ToldInv'
  <1> USE ViewConstants
  <1>1. cur + 1 \in Visits /\ cur + 1 > cur
    BY DEF TypeOK, Open, Visits
  <1>2. /\ \A w \in Visits \ {cur + 1} : test'[w] = test[w] /\ kind'[w] = kind[w]
        /\ UNCHANGED <<limitLink, messages>>
    BY <1>1 DEF TypeOK, Open
  <1> SUFFICES ASSUME NEW w \in Visits
               PROVE  Told(w)' /\ RoomForCPU(w)' /\ MemoryTold(w)'
    BY DEF ToldInv
  <1>3. CASE w = cur + 1
    <2>1. messages[w] = <<>> /\ \A c \in Instances, r \in Resources : limitLink[w][c][r] = "own"
      BY <1>1, <1>3 DEF PageInv, Untouched
    <2>2. messages'[w] = <<>> /\ \A c \in Instances, r \in Resources : limitLink'[w][c][r] = "own"
      BY <2>1, <1>2
    <2>3. Len(messages'[w]) = 0
      BY <2>2
    <2>4. \A c \in Instances : ~Replaced(w, c, "cpu")' /\ ~Replaced(w, c, "memory")'
      BY <2>2 DEF Replaced, Resources
    <2>5. \A c \in Instances, q \in Resources : ~Replaced(w, c, q)'
      BY <2>2 DEF Replaced
    <2> QED BY <2>2, <2>3, <2>4, <2>5 DEF Told, RoomForCPU, MemoryTold
  <1>4. CASE w # cur + 1
    BY <1>2, <1>4, ToldKept DEF ToldInv
  <1> QED BY <1>3, <1>4

LEMMA QuietTold ==
  ASSUME TypeOK, ToldInv, NEW v \in Visits, NEW c \in Instances, Quiet(v, c)
  PROVE  ToldInv'
  <1>1. /\ UNCHANGED <<kind, limitLink, messages>>
        /\ test[v][c].pc \in {"usage", "limit", "wait"}
        /\ test'[v][c].of = test[v][c].of
        /\ \A w \in Visits, d \in Instances :
             <<w, d>> # <<v, c>> => test'[w][d] = test[w][d]
    BY QuietStep
  <1>2. \A w \in Visits, d \in Instances :
          /\ test[w][d].pc = "decided" => test'[w][d].pc = "decided"
          /\ test'[w][d].of = "memory" => test[w][d].of = "memory"
    BY <1>1
  <1> QED BY <1>1, <1>2, ToldKept DEF ToldInv

\* A change callback adds the memory message only to an empty list, and
\* always has room for the CPU message.
LEMMA ChangeTells ==
  ASSUME TypeOK, ToldInv, NEW v \in Visits, NEW c \in Instances, NEW r \in Resources,
         test[v][c].pc = "limit", ChangeLimit(v, c, r)
  PROVE  /\ \A d \in Instances, q \in Resources :
              limitLink'[v][d][q] = IF d = c /\ q = r THEN "fallback" ELSE limitLink[v][d][q]
         /\ \A w \in Visits \ {v} :
              messages'[w] = messages[w] /\ limitLink'[w] = limitLink[w]
         /\ \/ /\ r = "memory"
               /\ messages[v] = <<>>
               /\ messages'[v] = <<"memory">>
            \/ /\ r = "memory"
               /\ messages[v] # <<>>
               /\ messages'[v] = messages[v]
            \/ /\ r = "cpu"
               /\ messages'[v] = Append(messages[v], "cpu")
  <1>1. \A d \in Instances, q \in Resources :
          limitLink'[v][d][q] = IF d = c /\ q = r THEN "fallback" ELSE limitLink[v][d][q]
    BY DEF ChangeLimit, TypeOK
  <1>2. \A w \in Visits \ {v} : messages'[w] = messages[w] /\ limitLink'[w] = limitLink[w]
    BY DEF ChangeLimit, TypeOK
  <1>3. messages'[v] = IF Room(v, r) THEN Append(messages[v], r) ELSE messages[v]
    BY DEF ChangeLimit, TypeOK
  <1>4. messages[v] \in Seq(Resources)
    BY DEF TypeOK
  <1>5. CASE r = "memory"
    <2>1. Room(v, r) <=> messages[v] = <<>>
      BY <1>4, <1>5 DEF Room
    <2>2. Append(<<>>, r) = <<"memory">>
      BY <1>5
    <2> QED BY <1>1, <1>2, <1>3, <1>5, <2>1, <2>2
  <1>6. CASE r = "cpu"
    <2>1. ~Replaced(v, c, "cpu")
      BY DEF ToldInv, RoomForCPU
    <2>2. Len(messages[v]) <= 2
      BY <2>1 DEF ToldInv, RoomForCPU
    <2> QED BY <1>1, <1>2, <1>3, <1>6, <2>2 DEF Room
  <1> QED BY <1>5, <1>6 DEF Resources

LEMMA LimitTold ==
  ASSUME TypeOK, PageInv, ToldInv, NEW v \in Visits, NEW c \in Instances,
         NEW l \in Limits, TakeLimit(v, c, l)
  PROVE  ToldInv'
  <1> DEFINE r == test[v][c].of
  <1>1. /\ test[v][c].pc = "limit"
        /\ kind' = kind
        /\ \A w \in Visits, d \in Instances :
             <<w, d>> # <<v, c>> => test'[w][d] = test[w][d]
        /\ UNCHANGED <<limitLink, messages>> \/ ChangeLimit(v, c, r)
        /\ r = "cpu" => test'[v][c].pc = "decided"
        /\ test'[v][c].of = "cpu"
    BY LimitStep
  <1>2. r \in Resources /\ messages[v] \in Seq(Resources)
    BY DEF TypeOK, Tests
  <1>3. c \in Controllers(kind[v])
    BY <1>1 DEF PageInv, TestsOfControllers
  <1>8. r = "memory" => \A q \in Resources : ~Replaced(v, c, q)
    BY DEF ToldInv, MemoryTold
  <1> HIDE DEF r
  <1> SUFFICES ASSUME NEW w \in Visits
               PROVE  Told(w)' /\ RoomForCPU(w)' /\ MemoryTold(w)'
    BY DEF ToldInv
  <1>4. \A d \in Instances :
          /\ test[w][d].pc = "decided" => test'[w][d].pc = "decided"
          /\ test'[w][d].of = "memory" => test[w][d].of = "memory"
    BY <1>1
  <1>5. CASE UNCHANGED <<limitLink, messages>>
    BY <1>1, <1>4, <1>5, ToldKept DEF ToldInv
  <1>6. CASE ChangeLimit(v, c, r) /\ w # v
    <2>1. messages'[w] = messages[w] /\ limitLink'[w] = limitLink[w]
      BY <1>1, <1>2, <1>6, ChangeTells
    <2> QED BY <1>1, <1>4, <2>1, ToldKept DEF ToldInv
  <1>7. CASE ChangeLimit(v, c, r) /\ w = v
    <2> DEFINE m == messages[v]
               n == messages'[v]
    <2>1. \A d \in Instances, q \in Resources :
            limitLink'[v][d][q] = "fallback" <=> (d = c /\ q = r) \/ Replaced(v, d, q)
      BY <1>1, <1>2, <1>7, ChangeTells DEF Replaced
    <2>2. \/ r = "memory" /\ m = <<>> /\ n = <<"memory">>
          \/ r = "memory" /\ m # <<>> /\ n = m
          \/ r = "cpu" /\ n = Append(m, "cpu")
      BY <1>1, <1>2, <1>7, ChangeTells
    <2>3. Told(v) /\ RoomForCPU(v) /\ MemoryTold(v)
      BY DEF ToldInv
    <2>4. ~Replaced(v, c, "cpu")
      BY <1>1, <2>3 DEF RoomForCPU
    <2>5. \A i \in 1 .. Len(m) : m[i] \in Resources
      BY <1>2
    <2>6. /\ Len(m) \in Nat
          /\ r = "cpu" => /\ Len(n) = Len(m) + 1
                          /\ n[Len(m) + 1] = "cpu"
                          /\ \A i \in 1 .. Len(m) : n[i] = m[i]
      BY <1>2, <2>2
    <2>7. r = "memory" /\ m = <<>> => Len(n) = 1 /\ n[1] = "memory"
      <3>1. r = "memory" /\ m = <<>> => n = <<"memory">>
        BY <2>2
      <3>2. Len(<<"memory">>) = 1 /\ <<"memory">>[1] = "memory"
        OBVIOUS
      <3> QED BY <3>1, <3>2
    <2>8. m = <<>> <=> Len(m) = 0
      BY <1>2
    <2>9. n # <<>>
      BY <2>2, <2>6, <2>7
    <2>10. r = "memory" => Len(n) = 1 \/ Len(n) = Len(m)
      <3>1. r = "memory" => (m = <<>> \/ n = m)
        BY <2>2, Zenon
      <3> HIDE DEF m, n
      <3> QED BY <2>7, <3>1
    <2> HIDE DEF m, n
    \* No message goes away.
    <2>11. Len(m) \in Nat /\ Len(n) \in Nat
      BY <1>2, <2>6, <2>10 DEF Resources
    <2>12. \A i \in 1 .. Len(m) : i \in 1 .. Len(n) /\ n[i] = m[i]
      BY <2>2, <2>6, <2>8
    <2>13. (Len(m) <= 2 /\ (r = "cpu" => Len(n) <= 3)) \/ (r = "memory" /\ Len(m) <= 3)
      BY <2>2, <2>3, <2>4, <2>6, <2>8 DEF Told, RoomForCPU, m
    <2>14. r = "cpu" => Len(n) <= 3
      BY <2>13
    <2>15. Told(v)'
      <3>1. Len(n) <= 3
        BY <1>2, <2>10, <2>13, <2>11, <2>14 DEF Resources
      <3>2. ASSUME NEW i \in 1 .. Len(n), n[i] = "memory" PROVE i = 1
        <4>1. \A k \in 1 .. Len(m) : m[k] = "memory" => k = 1
          BY <2>3 DEF Told, m
        <4>2. CASE r = "memory"
          BY <2>2, <2>7, <3>2, <4>1, <4>2
        <4>3. CASE r = "cpu"
          <5>1. i \in 1 .. Len(m)
            BY <2>6, <3>2, <4>3
          <5> QED BY <2>6, <3>2, <4>1, <4>3, <5>1
        <4> QED BY <1>2, <4>2, <4>3 DEF Resources
      <3>3. ASSUME NEW i \in 1 .. Len(n)
            PROVE  \E d \in Controllers(kind[v]) : limitLink'[v][d][n[i]] = "fallback"
        <4>1. CASE i \in 1 .. Len(m)
          <5>1. PICK d \in Controllers(kind[v]) : Replaced(v, d, m[i])
            BY <2>3, <4>1 DEF Told, m
          <5>2. n[i] = m[i] /\ m[i] \in Resources
            BY <2>5, <2>12, <4>1
          <5>3. d \in Instances
            BY ControllersAreInstances
          <5>4. limitLink'[v][d][m[i]] = "fallback"
            BY <2>1, <5>1, <5>2, <5>3
          <5> QED BY <5>2, <5>4
        <4>2. CASE i \notin 1 .. Len(m)
          <5>1. n[i] = r
            BY <2>2, <2>6, <2>7, <4>2
          <5>2. limitLink'[v][c][r] = "fallback"
            BY <1>2, <2>1
          <5> QED BY <1>3, <5>1, <5>2
        <4> QED BY <4>1, <4>2
      <3>4. ASSUME NEW d \in Instances, limitLink'[v][d]["cpu"] = "fallback"
            PROVE  \E i \in 1 .. Len(n) : n[i] = "cpu"
        <4>1. CASE Replaced(v, d, "cpu")
          <5>1. PICK i \in 1 .. Len(m) : m[i] = "cpu"
            BY <2>3, <4>1 DEF Told, m
          <5> QED BY <2>12, <5>1
        <4>2. CASE ~Replaced(v, d, "cpu")
          <5>1. r = "cpu"
            BY <2>1, <3>4, <4>2 DEF Resources
          <5> QED BY <2>6, <5>1
        <4> QED BY <4>1, <4>2
      <3>5. ASSUME NEW d \in Instances, limitLink'[v][d]["memory"] = "fallback" PROVE n # <<>>
        BY <2>9
      <3>6. ASSUME NEW i \in 1 .. Len(n), NEW j \in 1 .. Len(n),
                   n[i] = "cpu", n[j] = "cpu", i # j
            PROVE  BothCPUs(v)'
        \* Of two CPU messages at least one was there before.
        <4>1. PICK k \in 1 .. Len(m) : m[k] = "cpu"
          <5>1. CASE r = "memory"
            BY <2>2, <2>7, <3>6, <5>1
          <5>2. CASE r = "cpu"
            <6>1. i \in 1 .. Len(m) \/ j \in 1 .. Len(m)
              BY <2>6, <3>6, <5>2
            <6> QED BY <2>6, <3>6, <5>2, <6>1
          <5> QED BY <1>2, <5>1, <5>2 DEF Resources
        <4>2. CASE BothCPUs(v)
          BY <1>1, <2>1, <4>2 DEF BothCPUs, Replaced, Resources
        <4>3. CASE ~BothCPUs(v)
          <5>1. r = "cpu"
            BY <1>2, <2>2, <2>3, <2>7, <3>6, <4>3 DEF Told, Resources, m
          <5>2. PICK d \in Controllers(kind[v]) : Replaced(v, d, "cpu")
            BY <2>3, <4>1 DEF Told, m
          <5>3. d # c /\ d \in Instances
            BY <2>4, <5>2, ControllersAreInstances
          <5>4. Controllers(kind[v]) = Instances
            BY <1>3, <5>2, <5>3, OneOrBoth
          <5>5. \A e \in Instances : limitLink'[v][e]["cpu"] = "fallback"
            BY <2>1, <5>1, <5>2, <5>3 DEF Instances, Resources
          <5> QED BY <1>1, <5>4, <5>5 DEF BothCPUs, Replaced
        <4> QED BY <4>2, <4>3
      <3> QED BY <3>1, <3>2, <3>3, <3>4, <3>5, <3>6, <1>1 DEF Told, Replaced, n
    <2>16. RoomForCPU(v)'
      <3>1. ASSUME \A d \in Instances : limitLink'[v][d]["cpu"] # "fallback" PROVE Len(n) <= 1
        <4>1. r = "memory" /\ \A d \in Instances : ~Replaced(v, d, "cpu")
          BY <1>2, <2>1, <3>1 DEF Resources
        <4>2. Len(m) <= 1
          BY <2>3, <4>1 DEF RoomForCPU, m
        <4> QED BY <2>10, <2>11, <4>1, <4>2
      <3>2. ASSUME NEW d \in Instances, limitLink'[v][d]["cpu"] # "fallback" PROVE Len(n) <= 2
        <4>1. ~Replaced(v, d, "cpu")
          BY <2>1, <3>2 DEF Resources
        <4>2. CASE r = "memory"
          <5>1. Len(m) <= 2
            BY <2>3, <4>1 DEF RoomForCPU, m
          <5>2. Len(n) = 1 \/ Len(n) = Len(m)
            BY <2>10, <4>2
          <5>3. CASE Len(n) = 1
            BY <5>3
          <5>4. CASE Len(n) = Len(m)
            BY <5>1, <5>4
          <5> QED BY <5>2, <5>3, <5>4
        <4>3. CASE r = "cpu"
          \* Both instances had their limit.
          <5>1. d # c
            BY <2>1, <3>2, <4>3 DEF Resources
          <5>2. \A e \in Instances : ~Replaced(v, e, "cpu")
            BY <2>4, <4>1, <5>1 DEF Instances
          <5>3. Len(m) <= 1
            BY <2>3, <5>2 DEF RoomForCPU, m
          <5> QED BY <2>6, <4>3, <5>3
        <4> QED BY <1>2, <4>2, <4>3 DEF Resources
      <3>3. ASSUME NEW d \in Instances, test'[v][d].pc # "decided"
            PROVE  limitLink'[v][d]["cpu"] # "fallback"
        <4>1. CASE d = c
          <5>1. r # "cpu"
            BY <1>1, <3>3, <4>1
          <5> QED BY <2>1, <2>4, <4>1, <5>1 DEF Resources
        <4>2. CASE d # c
          <5>1. ~Replaced(v, d, "cpu")
            BY <1>1, <2>3, <3>3, <4>2 DEF RoomForCPU
          <5> QED BY <2>1, <4>2, <5>1 DEF Resources
        <4> QED BY <4>1, <4>2
      <3> QED BY <3>1, <3>2, <3>3 DEF RoomForCPU, Replaced, n
    <2>17. MemoryTold(v)'
      <3>1. ASSUME NEW d \in Instances, test'[v][d].of = "memory", NEW q \in Resources
            PROVE  limitLink'[v][d][q] # "fallback"
        <4>1. d # c /\ test[v][d].of = "memory"
          BY <1>1, <3>1
        <4>2. ~Replaced(v, d, q)
          BY <2>3, <4>1 DEF MemoryTold
        <4> QED BY <2>1, <4>1, <4>2
      <3>2. ASSUME Controllers(kind[v]) # Instances, NEW d \in Instances,
                   limitLink'[v][d]["memory"] = "fallback"
            PROVE  \E i \in 1 .. Len(n) : n[i] = "memory"
        <4>1. CASE Replaced(v, d, "memory")
          <5>1. PICK i \in 1 .. Len(m) : m[i] = "memory"
            BY <2>3, <3>2, <4>1 DEF MemoryTold, m
          <5> QED BY <2>12, <5>1
        <4>2. CASE ~Replaced(v, d, "memory")
          <5>1. r = "memory"
            BY <2>1, <3>2, <4>2 DEF Resources
          \* A message in the list would be one of another instance.
          <5>2. ASSUME NEW i \in 1 .. Len(m) PROVE FALSE
            <6>1. PICK e \in Controllers(kind[v]) : Replaced(v, e, m[i])
              BY <2>3, <5>2 DEF Told, m
            <6>2. e = c
              BY <1>3, <3>2, <6>1, OneOrBoth
            <6> QED BY <1>8, <2>5, <5>1, <5>2, <6>1, <6>2
          <5>3. m = <<>>
            BY <2>8, <2>11, <5>2
          <5> QED BY <2>7, <5>1, <5>3
        <4> QED BY <4>1, <4>2
      <3> QED BY <3>1, <3>2, <1>1 DEF MemoryTold, Replaced, n
    <2> QED BY <1>7, <2>15, <2>16, <2>17
  <1> QED BY <1>1, <1>5, <1>6, <1>7

LEMMA ToldStep == TypeOK /\ PageInv /\ ToldInv /\ [Next]_vars => ToldInv'
  <1> SUFFICES ASSUME TypeOK, PageInv, ToldInv, [Next]_vars PROVE ToldInv'
    OBVIOUS
  <1>1. CASE \E k \in PageKinds : Open(k)
    BY <1>1, OpenTold
  <1>2. ASSUME NEW v \in Visits, NEW c \in Instances, TestStep(v, c) PROVE ToldInv'
    <2>1. CASE Quiet(v, c)
      BY <2>1, QuietTold
    <2>2. CASE \E l \in Limits : TakeLimit(v, c, l)
      BY <2>2, LimitTold
    <2> QED BY <1>2, <2>1, <2>2 DEF TestStep, Quiet
  <1>3. CASE UNCHANGED vars
    BY <1>3, ToldKept DEF vars, ToldInv
  <1> QED BY <1>1, <1>2, <1>3 DEF Next

\* The inductive invariant of the messages holds on every page that was opened,
\* also after it was left.
THEOREM ToldInvariant == Spec => [](TypeOK /\ PageInv /\ ToldInv)
  BY TypeInit, TypeStep, PageInit, PageStep, ToldInit, ToldStep, PTL DEF Spec

\* On every kind of page, also when two instances of UtilizationViewController
\* push to one $scope.messages: at most three messages, none without a limit
\* that was replaced, none missing for a replaced CPU limit, and none twice but
\* the CPU message of two instances that both replaced that limit.
THEOREM ReplacementsAreTold == Spec => []ReplacementsTold
  <1>1. TypeOK /\ ToldInv => ReplacementsTold
    <2> SUFFICES ASSUME TypeOK, ToldInv, NEW v \in Visits,
                        NEW i \in 1 .. Len(messages[v]), NEW j \in 1 .. Len(messages[v]),
                        messages[v][i] = messages[v][j], i # j
                 PROVE  messages[v][i] = "cpu" /\ BothCPUs(v)
      BY DEF ToldInv, Told, ReplacementsTold, BothCPUs
    <2>1. messages[v][i] \in Resources
      BY DEF TypeOK
    <2>2. messages[v][i] # "memory"
      BY DEF ToldInv, Told
    <2> QED BY <2>1, <2>2 DEF ToldInv, Told, Resources
  <1> QED BY <1>1, ToldInvariant, PTL

\* Where no two instances share the messages, these say exactly which fallback
\* limits the chart uses, although the tests are asynchronous, retried and
\* continue after the page was left.
THEOREM MessagesAreTrue == Spec => []MessagesMatchLimits
  <1>1. PageInv /\ ToldInv => MessagesMatchLimits
    <2> SUFFICES ASSUME PageInv, ToldInv, NEW v \in Visits, NEW c \in Instances,
                        Controllers(kind[v]) # Instances,
                        test[v][c].pc = "decided", NEW r \in Resources
                 PROVE  Replaced(v, c, r)
                          <=> \E i \in 1 .. Len(messages[v]) : messages[v][i] = r
      BY DEF MessagesMatchLimits
    <2>1. c \in Controllers(kind[v])
      BY DEF PageInv, TestsOfControllers
    <2>2. Told(v) /\ MemoryTold(v)
      BY DEF ToldInv
    <2>3. ASSUME Replaced(v, c, r)
          PROVE  \E i \in 1 .. Len(messages[v]) : messages[v][i] = r
      BY <2>2, <2>3 DEF Told, MemoryTold, Resources
    <2>4. ASSUME NEW i \in 1 .. Len(messages[v]), messages[v][i] = r
          PROVE  Replaced(v, c, r)
      <3>1. PICK d \in Controllers(kind[v]) : Replaced(v, d, r)
        BY <2>2, <2>4 DEF Told
      <3> QED BY <2>1, <3>1, OneOrBoth
    <2> QED BY <2>3, <2>4
  <1> QED BY <1>1, ToldInvariant, PTL

\* If no namespace page is opened no message is in the list twice, which
\* ng-repeat requires.
THEOREM NoMessageTwice ==
  ASSUME "namespace" \notin PageKinds
  PROVE  Spec => []MessagesDistinct
  <1>1. TypeOK /\ ReplacementsTold => MessagesDistinct
    <2> SUFFICES ASSUME TypeOK, ReplacementsTold, NEW v \in Visits
                 PROVE  \A i, j \in 1 .. Len(messages[v]) :
                          messages[v][i] = messages[v][j] => i = j
      BY DEF MessagesDistinct
    <2>1. kind[v] # "namespace"
      BY DEF TypeOK
    <2>2. Controllers(kind[v]) # Instances
      BY <2>1 DEF Controllers, Instances
    <2> QED BY <2>2 DEF ReplacementsTold
  <1> QED BY <1>1, ViewTypes, ReplacementsAreTold, PTL

-----------------------------------------------------------------------------
(* Leaving a page *)

\* On the page that is open, $scope.pollPromise names an interval that runs,
\* if any does.
PromiseRuns ==
  \A c \in Instances : <<cur, c>> \in intervals => <<cur, pollPromise[cur]>> \in intervals

LEMMA PromiseInit == Init => PromiseRuns
  BY DEF Init, PromiseRuns

LEMMA PromiseStep == TypeOK /\ PageInv /\ PromiseRuns /\ [Next]_vars => PromiseRuns'
  <1> SUFFICES ASSUME TypeOK, PageInv, PromiseRuns, [Next]_vars PROVE PromiseRuns'
    OBVIOUS
  <1>1. ASSUME NEW k \in PageKinds, Open(k) PROVE PromiseRuns'
    <2>1. cur + 1 \in Visits /\ cur + 1 > cur /\ cur' = cur + 1
      BY <1>1, ViewConstants DEF TypeOK, Open, Visits
    <2>2. \A c \in Instances : <<cur + 1, c>> \notin intervals
      BY <2>1 DEF PageInv, Untouched
    <2> DEFINE direct == Controllers(k) # {} /\ ~HasFallback(k)
    <2>3. /\ pollPromise'[cur + 1] = IF direct THEN 1 ELSE 0
          /\ intervals' \subseteq intervals \cup (IF direct THEN {<<cur + 1, 1>>} ELSE {})
          /\ direct => <<cur + 1, 1>> \in intervals'
      BY <1>1, <2>1 DEF Open, TypeOK
    <2> HIDE DEF direct
    <2> QED BY <2>1, <2>2, <2>3 DEF PromiseRuns
  <1>2. ASSUME NEW v \in Visits, NEW c \in Instances, TestStep(v, c) PROVE PromiseRuns'
    <2>1. cur' = cur /\ (UNCHANGED <<intervals, pollPromise>> \/ StartChart(v, c))
      <3>1. CASE Quiet(v, c)
        BY <3>1, QuietStep
      <3>2. CASE \E l \in Limits : TakeLimit(v, c, l)
        BY <3>2, LimitStep
      <3> QED BY <1>2, <3>1, <3>2 DEF TestStep, Quiet
    <2>2. CASE UNCHANGED <<intervals, pollPromise>>
      BY <2>1, <2>2 DEF PromiseRuns
    <2>3. CASE StartChart(v, c)
      <3>1. /\ intervals' = intervals \cup {<<v, c>>}
            /\ pollPromise'[v] = c
            /\ \A w \in Visits \ {v} : pollPromise'[w] = pollPromise[w]
        BY <2>3 DEF StartChart, TypeOK
      <3> SUFFICES ASSUME NEW d \in Instances, <<cur, d>> \in intervals'
                   PROVE  <<cur, pollPromise'[cur]>> \in intervals'
        BY <2>1 DEF PromiseRuns
      <3>2. cur \in Visits
        BY <3>1 DEF TypeOK
      <3>3. CASE cur = v
        BY <3>1, <3>3
      <3>4. CASE cur # v
        <4>1. <<cur, d>> \in intervals
          BY <3>1, <3>4
        <4> QED BY <3>1, <3>2, <3>4, <4>1 DEF PromiseRuns
      <3> QED BY <3>3, <3>4
    <2> QED BY <2>1, <2>2, <2>3
  <1>3. CASE UNCHANGED vars
    BY <1>3 DEF vars, PromiseRuns
  <1> QED BY <1>1, <1>2, <1>3 DEF Next

\* Whatever kind of page is left, the $destroy handler cancels a running
\* interval if there is one: a page with one interval is left without any, a
\* namespace page with two is left with one.
THEOREM LeavingCancels == Spec => LeavingCancelsOne
  <1> DEFINE CancelsOne ==
        \A v \in Visits :
          /\ v = cur
          /\ v # cur'
          => \A c \in Instances : <<v, c>> \in intervals' =>
               \E d \in Instances \ {c} : <<v, d>> \in intervals \ intervals'
  <1>1. TypeOK /\ PageInv /\ PromiseRuns /\ [Next]_vars => [CancelsOne]_vars
    <2> SUFFICES ASSUME TypeOK, PageInv, PromiseRuns, Next, cur \in Visits, cur # cur',
                        NEW c \in Instances, <<cur, c>> \in intervals'
                 PROVE  \E d \in Instances \ {c} : <<cur, d>> \in intervals \ intervals'
      OBVIOUS
    <2>1. PICK k \in PageKinds : Open(k)
      <3>1. \A w \in Visits, d \in Instances : TestStep(w, d) => cur' = cur
        BY DEF TestStep, TakeUsage, TakeLimit, Postpone, Retry, Lose
      <3> QED BY <3>1 DEF Next
    <2> DEFINE d == pollPromise[cur]
    <2>2. cur # 0 /\ cur + 1 # cur
      BY ViewConstants DEF Visits
    <2>3. /\ <<cur, c>> \in intervals
          /\ <<cur, c>> # <<cur, d>>
          /\ <<cur, d>> \notin intervals'
      BY <2>1, <2>2 DEF Open, Cancelled
    <2>4. <<cur, d>> \in intervals /\ d \in Instances
      BY <2>3 DEF PromiseRuns, TypeOK
    <2> QED BY <2>3, <2>4
  <1> QED BY TypeInit, TypeStep, PageInit, PageStep, PromiseInit, PromiseStep, <1>1,
             PTL DEF Spec, LeavingCancelsOne

=============================================================================
