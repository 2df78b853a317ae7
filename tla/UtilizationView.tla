-------------------------- MODULE UtilizationView ---------------------------
(***************************************************************************)
(* The life of the pages with a utilization chart (app/util.js,            *)
(* app/views.js): a page's controller runs UtilizationViewController,      *)
(* which on pages with fallback limits first tests the entity's memory and *)
(* CPU limits against its usage (testLimitToUsageRatio, asynchronous, with *)
(* a retry after 5 seconds) and only then starts ChartViewController, which *)
(* polls at an interval until the page's scope is destroyed.               *)
(*                                                                         *)
(* The user navigates from page to page; the callbacks and timeouts of a   *)
(* page that was left still run.  Visit v is the v-th page opened; only    *)
(* the last one is alive.  What one poll does is module UtilizationPoll.   *)
(***************************************************************************)
EXTENDS Integers, Sequences

CONSTANTS
  MaxVisits,   \* bound: the number of pages opened
  PageKinds,   \* the kinds of page that the user opens
  Usages,      \* the values of a usage sample
  Limits,      \* the values of a limit sample
  Lossy        \* can a request of a limit test fail

ASSUME ViewConstants ==
  /\ MaxVisits \in Nat
  /\ PageKinds \subseteq {"listing", "direct", "fallback", "namespace"}
  /\ Usages \subseteq Nat
  /\ Limits \subseteq Nat
  /\ Lossy \in BOOLEAN

Visits == 1 .. MaxVisits
Instances == {1, 2}
Resources == {"memory", "cpu"}

\* The instances of UtilizationViewController that a page's controller runs:
\* the Nodes and Namespaces pages have no chart; namespaceUtil runs it twice.
Controllers(k) ==
  CASE k = "listing" -> {}
    [] k = "namespace" -> Instances
    [] OTHER -> {1}

\* memLimitFallback and cpuLimitFallback are set
HasFallback(k) == k \in {"fallback", "namespace"}

VARIABLES
  cur,          \* the visit that is alive; 0: none yet
  kind,         \* the page opened at each visit
  test,         \* where the limit tests of each controller instance stand
  limitLink,    \* the instance's memLimit and cpuLimit: whose limits it charts
  messages,     \* $scope.messages, by the resource they are about
  intervals,    \* the chart polling intervals that are running
  pollPromise   \* $scope.pollPromise: the instance whose interval it names

vars == <<cur, kind, test, limitLink, messages, intervals, pollPromise>>

NoTest == [pc |-> "none", of |-> "memory", usage |-> 0, limit |-> 0]
Tests ==
  [pc : {"none", "usage", "limit", "wait", "decided", "dead"},
   of : Resources,           \* the resource under test
   usage : Usages \cup {0},  \* the last usage read, 0 before
   limit : Limits \cup {0}]  \* the last limit read, 0 before

TypeOK ==
  /\ cur \in 0 .. MaxVisits
  /\ kind \in [Visits -> PageKinds \cup {"none"}]
  /\ test \in [Visits -> [Instances -> Tests]]
  /\ limitLink \in [Visits -> [Instances -> [Resources -> {"own", "fallback"}]]]
  /\ messages \in [Visits -> Seq(Resources)]
  /\ intervals \subseteq Visits \X Instances
  /\ pollPromise \in [Visits -> Instances \cup {0}]

Init ==
  /\ cur = 0
  /\ kind = [v \in Visits |-> "none"]
  /\ test = [v \in Visits |-> [c \in Instances |-> NoTest]]
  /\ limitLink =
       [v \in Visits |-> [c \in Instances |-> [r \in Resources |-> "own"]]]
  /\ messages = [v \in Visits |-> <<>>]
  /\ intervals = {}
  /\ pollPromise = [v \in Visits |-> 0]

-----------------------------------------------------------------------------
(* Opening and leaving pages *)

\* Faulty variant: leaving a page cancels nothing.
Cancelled_Nothing(v) == {}

\* ChartViewController's $destroy handler cancels the one interval that
\* $scope.pollPromise names when the page is left.
Cancelled(v) == {<<v, pollPromise[v]>>}

\* The user opens a page: the scope of the page that was open is destroyed,
\* then the new page's controller runs.  Without fallback limits the chart
\* starts at once; otherwise every instance sends the first request of its
\* memory test.
Open(k) ==
  LET v == cur + 1
      direct == Controllers(k) # {} /\ ~HasFallback(k)
  IN  /\ cur < MaxVisits
      /\ cur' = v
      /\ kind' = [kind EXCEPT ![v] = k]
      /\ intervals' = (IF cur = 0 THEN {} ELSE intervals \ Cancelled(cur))
                        \cup (IF direct THEN {<<v, 1>>} ELSE {})
      /\ pollPromise' = [pollPromise EXCEPT ![v] = IF direct THEN 1 ELSE 0]
      /\ test' = [test EXCEPT ![v] = [c \in Instances |->
           IF c \notin Controllers(k) THEN NoTest
           ELSE [NoTest EXCEPT !.pc = IF direct THEN "decided" ELSE "usage"]]]
      /\ UNCHANGED <<limitLink, messages>>

-----------------------------------------------------------------------------
(* testLimitToUsageRatio *)

Advance(v, c, t) == test' = [test EXCEPT ![v][c] = t]

\* Faulty variant: the index is off by one, the usage read is undefined (-1).
TakeUsage_PastEnd(v, c, u) ==
  /\ test[v][c].pc = "usage"
  /\ Advance(v, c, [test[v][c] EXCEPT !.pc = "limit", !.usage = -1])
  /\ UNCHANGED <<cur, kind, limitLink, messages, intervals, pollPromise>>

\* The usages arrive: the last one is kept and the limits are asked for.
TakeUsage(v, c, u) ==
  /\ test[v][c].pc = "usage"
  /\ Advance(v, c, [test[v][c] EXCEPT !.pc = "limit", !.usage = u])
  /\ UNCHANGED <<cur, kind, limitLink, messages, intervals, pollPromise>>

\* Either response has no metrics: the whole test of this resource is
\* started again by a timeout after 5 seconds.
Postpone(v, c) ==
  /\ test[v][c].pc \in {"usage", "limit"}
  /\ Advance(v, c, [test[v][c] EXCEPT !.pc = "wait", !.usage = 0])
  /\ UNCHANGED <<cur, kind, limitLink, messages, intervals, pollPromise>>

\* Faulty variant: only the memory test is started again.
Retry_MemoryOnly(v, c) ==
  /\ test[v][c].pc = "wait"
  /\ test[v][c].of = "memory"
  /\ Advance(v, c, [test[v][c] EXCEPT !.pc = "usage"])
  /\ UNCHANGED <<cur, kind, limitLink, messages, intervals, pollPromise>>

Retry(v, c) ==
  /\ test[v][c].pc = "wait"
  /\ Advance(v, c, [test[v][c] EXCEPT !.pc = "usage"])
  /\ UNCHANGED <<cur, kind, limitLink, messages, intervals, pollPromise>>

\* A request fails: no callback is registered for that.
Lose(v, c) ==
  /\ Lossy
  /\ test[v][c].pc \in {"usage", "limit"}
  /\ Advance(v, c, [test[v][c] EXCEPT !.pc = "dead", !.usage = 0])
  /\ UNCHANGED <<cur, kind, limitLink, messages, intervals, pollPromise>>

\* usage < limit/1000 is a comparison of floating point numbers.
InvalidLimit(u, l) == (u > 0 /\ u * 1000 < l) \/ l = 0

\* Faulty variant: the guard of the memory message is used for both messages.
Room_Strict(v, r) == Len(messages[v]) = 0

\* Faulty variant: the change callbacks add their messages without a guard.
Room_Always(v, r) == TRUE

\* Whether the change callback of a resource adds its message, depending on
\* how many messages there are.
Room(v, r) ==
  IF r = "memory" THEN Len(messages[v]) = 0 ELSE Len(messages[v]) <= 2

\* The change callback: use the fallback limit and say so.
ChangeLimit(v, c, r) ==
  /\ limitLink' = [limitLink EXCEPT ![v][c][r] = "fallback"]
  /\ messages' =
       IF Room(v, r) THEN [messages EXCEPT ![v] = Append(@, r)] ELSE messages

\* Starting ChartViewController: a new interval, named by $scope.pollPromise.
StartChart(v, c) ==
  /\ intervals' = intervals \cup {<<v, c>>}
  /\ pollPromise' = [pollPromise EXCEPT ![v] = c]

\* Faulty variant: the chart is started after the first test already.
NextTest_StartsEarly(v, c, done) ==
  \/ /\ done.of = "memory"
     /\ Advance(v, c, [NoTest EXCEPT !.pc = "usage", !.of = "cpu"])
     /\ StartChart(v, c)
  \/ /\ done.of = "cpu"
     /\ Advance(v, c, [done EXCEPT !.pc = "decided"])
     /\ StartChart(v, c)

\* The next callback: after the memory test comes the CPU test, and after
\* that define_poll and ChartViewController, which starts an interval and
\* overwrites $scope.pollPromise, whether or not the page is still alive.
NextTest(v, c, done) ==
  \/ /\ done.of = "memory"
     /\ Advance(v, c, [NoTest EXCEPT !.pc = "usage", !.of = "cpu"])
     /\ UNCHANGED <<intervals, pollPromise>>
  \/ /\ done.of = "cpu"
     /\ Advance(v, c, [done EXCEPT !.pc = "decided"])
     /\ StartChart(v, c)

\* The limits arrive: the last one decides the test.
TakeLimit(v, c, l) ==
  /\ test[v][c].pc = "limit"
  /\ IF InvalidLimit(test[v][c].usage, l)
       THEN ChangeLimit(v, c, test[v][c].of)
       ELSE UNCHANGED <<limitLink, messages>>
  /\ NextTest(v, c, [test[v][c] EXCEPT !.limit = l])
  /\ UNCHANGED <<cur, kind>>

TestStep(v, c) ==
  \/ \E u \in Usages : TakeUsage(v, c, u)
  \/ \E l \in Limits : TakeLimit(v, c, l)
  \/ Postpone(v, c)
  \/ Retry(v, c)
  \/ Lose(v, c)

Next ==
  \/ \E k \in PageKinds : Open(k)
  \/ \E v \in Visits, c \in Instances : TestStep(v, c)

Spec == Init /\ [][Next]_vars

\* On the page that is open, timeouts fire, responses arrive, and Heapster does
\* not stay without metrics for ever.  Nothing is assumed of a page that was
\* left, nor that the user opens another one.
Fairness ==
  \A c \in Instances :
    /\ SF_vars(\E v \in Visits, u \in Usages : v = cur /\ TakeUsage(v, c, u))
    /\ SF_vars(\E v \in Visits, l \in Limits : v = cur /\ TakeLimit(v, c, l))
    /\ WF_vars(\E v \in Visits : v = cur /\ Retry(v, c))

FairSpec == Spec /\ Fairness

-----------------------------------------------------------------------------
(* Properties *)

\* The fallback limits of instance c are charted for resource r.
Replaced(v, c, r) == limitLink[v][c][r] = "fallback"

\* On a page with one controller instance: when it has decided its limits, the
\* page has a message about a resource exactly if the chart shows the fallback
\* limit of that resource.
MessagesMatchLimits ==
  \A v \in Visits, c \in Instances :
    (Controllers(kind[v]) # Instances /\ test[v][c].pc = "decided") =>
      \A r \in Resources :
        Replaced(v, c, r) <=> \E i \in 1 .. Len(messages[v]) : messages[v][i] = r

\* What the guards of the change callbacks (Room) still achieve on a page whose
\* two instances share one list of messages: only the CPU message can be in it
\* twice, and only if both instances have replaced their CPU limit; each message
\* is about a limit that an instance of the page has replaced; and a replaced
\* CPU limit always has its message, a replaced memory limit at least some.
ReplacementsTold ==
  \A v \in Visits :
    LET m == messages[v]
        BothCPUs == /\ Controllers(kind[v]) = Instances
                    /\ \A c \in Instances : Replaced(v, c, "cpu")
    IN  /\ Len(m) <= 3
        /\ \A i, j \in 1 .. Len(m) :
             m[i] = m[j] => i = j \/ (m[i] = "cpu" /\ BothCPUs)
        /\ \A i \in 1 .. Len(m) : \E c \in Controllers(kind[v]) : Replaced(v, c, m[i])
        /\ \A c \in Instances : Replaced(v, c, "cpu") =>
             \E i \in 1 .. Len(m) : m[i] = "cpu"
        /\ \A c \in Instances : Replaced(v, c, "memory") => m # <<>>

\* No message is in the list twice (ng-repeat="message in messages" refuses
\* a list with duplicates).
MessagesDistinct ==
  \A v \in Visits : \A i, j \in 1 .. Len(messages[v]) :
    messages[v][i] = messages[v][j] => i = j

\* An interval goes on after its page is left only if another interval of the
\* page was cancelled in its stead: with one interval none is left, and of the
\* two of a namespace page, which share $scope.pollPromise, at most one.
LeavingCancelsOne ==
  [][\A v \in Visits :
       /\ v = cur
       /\ v # cur'
       => \A c \in Instances : <<v, c>> \in intervals' =>
            \E d \in Instances \ {c} : <<v, d>> \in intervals \ intervals']_vars

\* No page polls before all of its limits are decided, nor for an instance
\* that the page's controller did not run.
PollersHaveDecided ==
  \A p \in intervals :
    /\ test[p[1]][p[2]].pc = "decided"
    /\ p[2] \in Controllers(kind[p[1]])

\* Only the page that is open polls.
OnlyOpenPagePolls == \A p \in intervals : p[1] = cur

\* A chart of the page that is open does not poll yet, and no request of its
\* limit tests has failed.
Waiting(c) ==
  /\ cur # 0
  /\ c \in Controllers(kind[cur])
  /\ <<cur, c>> \notin intervals
  /\ test[cur][c].pc # "dead"

\* A chart does not wait for ever: if its page stays open it starts polling,
\* however often its limit tests have to wait for metrics, unless a request of
\* these fails.  The instances of a namespace page do not hold each other up.
OpenPageGetsPolled == \A c \in Instances : []<>~Waiting(c)

\* A CPU limit was replaced by the fallback exactly if the comment in
\* testLimitToUsageRatio calls it invalid: if it is 0, or less than 0.001% of
\* a given non-zero usage.
LimitTestAsDocumented ==
  \A v \in Visits, c \in Instances :
    LET t == test[v][c]
    IN  (t.pc = "decided" /\ HasFallback(kind[v])) =>
          (limitLink[v][c]["cpu"] = "fallback"
             <=> (t.limit = 0 \/ (t.usage > 0 /\ t.limit * 100000 < t.usage)))

=============================================================================
