-------------------------- MODULE GinRequestProofs --------------------------
(***************************************************************************)
(* What a single request goes through, for any number of connections,      *)
(* Contexts and requests: the loops of Recovery's Next, Logger's Next and   *)
(* the engine's own Next share one index and run the main handler once, the *)
(* status that is sent is the one the handler asked for first, and Logger   *)
(* logs it.  That a Context serves one request at a time (GinEngineProofs)  *)
(* makes every step of another request harmless.  To a browser, the engine  *)
(* therefore is the exchange of module Exchange.                            *)
(***************************************************************************)
EXTENDS GinEngineProofs, SequenceTheorems

-----------------------------------------------------------------------------
(* Scripts *)

\* x is the status noted after the first n calls of s: the code of the last
\* of them that is not a write, 200 if there is none.
NotedStatus(s, n, x) ==
  \/ x = 200 /\ \A j \in 1 .. n : s[j].op = "write"
  \/ \E i \in 1 .. n : /\ s[i].op # "write"
                       /\ x = s[i].code
                       /\ \A j \in (i + 1) .. n : s[j].op = "write"

\* One of the first n calls of s is a write.
Wrote(s, n) == \E j \in 1 .. n : s[j].op = "write"

\* How a call changes the status that is noted
LEMMA NotedNext ==
  ASSUME NEW s, NEW n \in Nat, NEW x, NotedStatus(s, n, x)
  PROVE  /\ s[n + 1].op = "write" => NotedStatus(s, n + 1, x)
         /\ s[n + 1].op # "write" => NotedStatus(s, n + 1, s[n + 1].code)
  <1>1. \A j \in 1 .. n + 1 : j \in 1 .. n \/ j = n + 1
    OBVIOUS
  <1>2. ASSUME s[n + 1].op = "write" PROVE NotedStatus(s, n + 1, x)
    <2>1. CASE x = 200 /\ \A j \in 1 .. n : s[j].op = "write"
      BY <1>1, <1>2, <2>1 DEF NotedStatus
    <2>2. CASE \E i \in 1 .. n : /\ s[i].op # "write"
                                 /\ x = s[i].code
                                 /\ \A j \in (i + 1) .. n : s[j].op = "write"
      <3>1. PICK i \in 1 .. n : /\ s[i].op # "write"
                                /\ x = s[i].code
                                /\ \A j \in (i + 1) .. n : s[j].op = "write"
        BY <2>2
      <3>2. i \in 1 .. n + 1 /\ \A j \in (i + 1) .. (n + 1) : s[j].op = "write"
        BY <1>2, <3>1
      <3> QED BY <3>1, <3>2 DEF NotedStatus
    <2> QED BY <2>1, <2>2 DEF NotedStatus
  <1>3. ASSUME s[n + 1].op # "write" PROVE NotedStatus(s, n + 1, s[n + 1].code)
    <2>1. n + 1 \in 1 .. n + 1 /\ (n + 1) + 1 .. n + 1 = {}
      OBVIOUS
    <2> QED BY <1>3, <2>1 DEF NotedStatus
  <1> QED BY <1>2, <1>3

LEMMA WroteNext ==
  ASSUME NEW s, NEW n \in Nat
  PROVE  Wrote(s, n + 1) <=> Wrote(s, n) \/ s[n + 1].op = "write"
  BY DEF Wrote

\* What is noted when the first write comes, or at the end if none comes, is
\* StatusOf the script.
LEMMA FirstStatus ==
  ASSUME NEW S, NEW s \in Seq(S), NEW n \in 0 .. Len(s), NEW x,
         ~Wrote(s, n), NotedStatus(s, n, x),
         n = Len(s) \/ s[n + 1].op = "write"
  PROVE  x = StatusOf(s)
  <1> DEFINE upTo == {i \in 0 .. Len(s) : \A j \in 1 .. i : s[j].op # "write"}
             codes == {i \in upTo \ {0} : s[i].op # "write"}
  <1>0. Len(s) \in Nat /\ n \in Nat
    OBVIOUS
  <1>1. \A i \in 1 .. n : s[i].op # "write"
    BY DEF Wrote
  <1>2. \A i \in codes : i \in 1 .. n
    <2> SUFFICES ASSUME NEW i \in codes, i > n PROVE FALSE
      BY <1>0
    <2>1. n + 1 \in 1 .. i /\ n # Len(s)
      BY <1>0
    <2> QED BY <2>1
  <1>3. 1 .. n \subseteq codes
    BY <1>0, <1>1
  <1>4. StatusOf(s) = IF codes = {} THEN 200
                      ELSE s[CHOOSE i \in codes : \A j \in codes : j <= i].code
    BY DEF StatusOf
  <1> HIDE DEF codes
  <1>5. CASE n = 0
    <2>1. codes = {}
      BY <1>2, <1>5
    <2>2. x = 200
      BY <1>5 DEF NotedStatus
    <2> QED BY <1>4, <2>1, <2>2
  <1>6. CASE n # 0
    <2>1. n \in codes /\ \A j \in codes : j <= n
      BY <1>0, <1>2, <1>3, <1>6
    <2>2. \A i \in codes : (\A j \in codes : j <= i) => i = n
      BY <1>0, <1>2, <2>1
    <2>3. (CHOOSE i \in codes : \A j \in codes : j <= i) = n
      BY <2>1, <2>2
    <2>4. x = s[n].code
      <3>1. PICK i \in 1 .. n : x = s[i].code /\ \A j \in (i + 1) .. n : s[j].op = "write"
        BY <1>0, <1>1, <1>6 DEF NotedStatus
      <3>2. i = n
        <4> SUFFICES ASSUME i # n PROVE FALSE
          OBVIOUS
        <4>1. n \in (i + 1) .. n /\ n \in 1 .. n
          BY <1>0
        <4> QED BY <1>1, <3>1, <4>1
      <3> QED BY <3>1, <3>2
    <2> QED BY <1>4, <2>1, <2>3, <2>4
  <1> QED BY <1>5, <1>6

\* The scripts that the repository's handlers follow have at most three
\* calls; they panic only at once and, but for one, write last if at all.
Calls == {Header(200), Header(301), Header(304), Header(404), Body, Fail, Panic}
LateFailure == <<Header(200), Body, Fail>>

LEMMA ScriptCases ==
  ASSUME NEW s \in AllScripts
  PROVE  \/ s = <<>> \/ s = <<Body>> \/ s = <<Panic>>
         \/ s = <<Header(200), Body>> \/ s = <<Header(200), Fail>>
         \/ s = <<Header(404), Body>> \/ s = <<Header(404), Header(200)>>
         \/ s = <<Header(404), Header(304)>> \/ s = <<Header(404), Header(301)>>
         \/ s = <<Header(404), Header(200), Body>>
         \/ s = <<Header(404), Header(404), Body>>
         \/ s = LateFailure
  BY DEF AllScripts, IndexScripts, StaticScripts, ApiScripts, LateFailure

LEMMA ScriptShape ==
  ASSUME NEW s \in AllScripts
  PROVE  s \in Seq(Calls) /\ Len(s) \in 0 .. 3
  <1>1. /\ <<>> \in Seq(Calls) /\ Len(<<>>) = 0
        /\ \A a \in Calls : <<a>> \in Seq(Calls) /\ Len(<<a>>) = 1
        /\ \A a, b \in Calls : <<a, b>> \in Seq(Calls) /\ Len(<<a, b>>) = 2
        /\ \A a, b, d \in Calls : <<a, b, d>> \in Seq(Calls) /\ Len(<<a, b, d>>) = 3
    OBVIOUS
  <1>2. /\ Header(200) \in Calls /\ Header(301) \in Calls /\ Header(304) \in Calls
        /\ Header(404) \in Calls /\ Body \in Calls /\ Fail \in Calls /\ Panic \in Calls
    BY DEF Calls
  <1> DEFINE P(t) == t \in Seq(Calls) /\ Len(t) \in 0 .. 3
  <1>3. /\ P(<<>>)
        /\ \A a \in Calls : P(<<a>>)
        /\ \A a, b \in Calls : P(<<a, b>>)
        /\ \A a, b, d \in Calls : P(<<a, b, d>>)
    BY <1>1
  <1> HIDE DEF P
  <1>4. P(s)
    <2>1. P(<<Body>>) /\ P(<<Panic>>)
      BY <1>2, <1>3
    <2>2. /\ P(<<Header(200), Body>>) /\ P(<<Header(200), Fail>>)
          /\ P(<<Header(404), Body>>) /\ P(<<Header(404), Header(200)>>)
          /\ P(<<Header(404), Header(304)>>) /\ P(<<Header(404), Header(301)>>)
      BY <1>2, <1>3
    <2>3. /\ P(<<Header(404), Header(200), Body>>)
          /\ P(<<Header(404), Header(404), Body>>)
          /\ P(<<Header(200), Body, Fail>>)
      BY <1>2, <1>3
    <2> QED BY <1>3, <2>1, <2>2, <2>3, ScriptCases DEF LateFailure
  <1> QED BY <1>4 DEF P

LEMMA PanicsAlone ==
  ASSUME NEW s \in AllScripts, NEW i \in 1 .. Len(s), s[i].op = "panic"
  PROVE  s = <<Panic>>
  BY DEF AllScripts, IndexScripts, StaticScripts, ApiScripts, Header, Body, Fail, Panic

LEMMA FailCode ==
  ASSUME NEW s \in AllScripts, NEW i \in 1 .. Len(s), s[i].op \in {"fail", "panic"}
  PROVE  s[i].code = 500
  BY DEF AllScripts, IndexScripts, StaticScripts, ApiScripts, Header, Body, Fail, Panic

LEMMA WritesLast ==
  ASSUME NEW s \in AllScripts, s # LateFailure, NEW i \in 1 .. Len(s), i # Len(s)
  PROVE  s[i].op # "write"
  <1>1. ASSUME NEW b, s = <<b>> PROVE FALSE
    BY <1>1
  <1>2. ASSUME NEW k, NEW b, s = <<Header(k), b>> PROVE s[i].op # "write"
    BY <1>2 DEF Header
  <1>3. ASSUME NEW k, NEW m, NEW b, s = <<Header(k), Header(m), b>>
        PROVE  s[i].op # "write"
    BY <1>3 DEF Header
  <1>4. s # <<>>
    OBVIOUS
  <1> QED BY <1>1, <1>2, <1>3, <1>4, ScriptCases

-----------------------------------------------------------------------------
(* The stages of a request *)

F(c) == ctx[held[c]]
HandlerOf(c) == Route[req[c]].handler

\* No handler was called yet, nothing was sent and nothing was logged.
Fresh(c) ==
  /\ outcome[c] = <<>> /\ done[c] = 0 /\ runs[c] = 0
  /\ wire[c] = <<>> /\ log[c] = <<>>

Idle(c) == Fresh(c) /\ frames[c] = <<>>

Routing(c) ==
  /\ Fresh(c) /\ frames[c] = <<>>
  /\ F(c).status = 200 /\ ~F(c).written

\* The middlewares are being entered: the index is the depth of the stack.
Entering(c) ==
  /\ Fresh(c) /\ ~F(c).written
  /\ \/ /\ HandlerOf(c) # NoHandler
        /\ F(c).chain = Append(Middleware, HandlerOf(c)) /\ F(c).status = 200
     \/ /\ Route[req[c]] = [handler |-> NoHandler, tsr |-> FALSE]
        /\ F(c).chain = Middleware /\ F(c).status = 404
  /\ \/ F(c).index = 0 /\ frames[c] = <<>>
     \/ F(c).index = 1 /\ frames[c] = <<"Recovery">>
     \/ F(c).index = 2 /\ frames[c] = Middleware

\* The main handler was called once, and has done what done says.
Progress(c) ==
  /\ HandlerOf(c) # NoHandler
  /\ F(c).chain = Append(Middleware, HandlerOf(c))
  /\ runs[c] = 1
  /\ done[c] \in 0 .. Len(outcome[c])
  /\ NotedStatus(outcome[c], done[c], F(c).status)
  /\ F(c).written <=> Wrote(outcome[c], done[c])
  /\ wire[c] = IF F(c).written THEN <<StatusOf(outcome[c])>> ELSE <<>>

Calling(c) ==
  /\ Progress(c)
  /\ frames[c] = Middleware /\ log[c] = <<>>
  /\ F(c).index \in {2, AbortIndex}

\* The main handler is over: the middlewares are left one by one, and the
\* index grows past the end of the chain.
Leaving(c) ==
  /\ Progress(c)
  /\ done[c] = Len(outcome[c])
  /\ \/ /\ frames[c] = Middleware /\ F(c).index \in {3, AbortIndex + 1}
        /\ log[c] = <<>>
     \/ /\ frames[c] = <<"Recovery">> /\ F(c).index \in {4, AbortIndex + 2}
        /\ log[c] = <<F(c).status>>
     \/ /\ frames[c] = <<>> /\ F(c).index \in {5, AbortIndex + 3}
        /\ log[c] = <<F(c).status>>
     \/ /\ frames[c] = <<>> /\ F(c).index = AbortIndex + 1
        /\ log[c] = <<>> /\ outcome[c] = <<Panic>>

\* The same without a main handler
LeavingNotFound(c) ==
  /\ Route[req[c]] = [handler |-> NoHandler, tsr |-> FALSE]
  /\ F(c).chain = Middleware /\ F(c).status = 404 /\ ~F(c).written
  /\ outcome[c] = <<>> /\ done[c] = 0 /\ runs[c] = 0 /\ wire[c] = <<>>
  /\ log[c] = <<404>>
  /\ \/ frames[c] = <<"Recovery">> /\ F(c).index = 3
     \/ frames[c] = <<>> /\ F(c).index = 4

\* The request is answered.
Answered(c) ==
  /\ frames[c] = <<>>
  /\ \/ /\ HandlerOf(c) # NoHandler
        /\ runs[c] = 1
        /\ done[c] = Len(outcome[c])
        /\ wire[c] = <<StatusOf(outcome[c])>>
        /\ \/ log[c] = <<>> /\ outcome[c] = <<Panic>>
           \/ \E x \in Statuses : NotedStatus(outcome[c], done[c], x) /\ log[c] = <<x>>
     \/ /\ HandlerOf(c) = NoHandler /\ Route[req[c]].tsr
        /\ outcome[c] = <<>> /\ done[c] = 0 /\ runs[c] = 0
        /\ wire[c] = <<RedirectStatus(req[c])>> /\ log[c] = <<>>
     \/ /\ HandlerOf(c) = NoHandler /\ ~Route[req[c]].tsr
        /\ outcome[c] = <<>> /\ done[c] = 0 /\ runs[c] = 0
        /\ wire[c] = <<404>> /\ log[c] = <<404>>

Stage(c) ==
  /\ pc[c] = "idle" => Idle(c)
  /\ pc[c] = "route" => Routing(c)
  /\ pc[c] = "next" => Entering(c) \/ Leaving(c) \/ LeavingNotFound(c)
  /\ pc[c] = "call" => Calling(c)
  /\ pc[c] = "put" => Answered(c)

RequestTypes ==
  /\ runs \in [Conns -> Nat]
  /\ log \in [Conns -> Seq(Statuses)]
  /\ frames \in [Conns -> {<<>>, <<"Recovery">>, Middleware}]

RInv ==
  /\ RequestTypes
  /\ \A x \in Contexts : ctx[x].index \in -1 .. AbortIndex + 3
  /\ \A c \in Conns : Stage(c)

LEMMA RequestInit == Init => RInv
  <1> SUFFICES ASSUME Init PROVE RInv
    OBVIOUS
  <1>1. \A x \in Contexts : ctx[x].index = -1
    BY DEF Init, NewContext
  <1>2. \A c \in Conns : Stage(c)
    BY DEF Init, Stage, Idle, Fresh
  <1> QED BY <1>1, <1>2 DEF Init, RInv, RequestTypes, AbortIndex

-----------------------------------------------------------------------------
(* Steps of one request and the stages of the others *)

\* Nothing that the stage of request d depends on has changed.
Same(d) ==
  /\ pc'[d] = pc[d] /\ req'[d] = req[d] /\ held'[d] = held[d]
  /\ frames'[d] = frames[d] /\ outcome'[d] = outcome[d] /\ done'[d] = done[d]
  /\ runs'[d] = runs[d] /\ wire'[d] = wire[d] /\ log'[d] = log[d]

LEMMA SameStage ==
  ASSUME NEW d \in Conns, Stage(d), Same(d), pc[d] = "idle" \/ F(d)' = F(d)
  PROVE  Stage(d)'
  <1>1. CASE pc[d] = "idle"
    BY <1>1 DEF Same, Stage, Idle, Fresh
  <1>2. CASE pc[d] = "route" /\ F(d)' = F(d)
    BY <1>2 DEF Same, Stage, Routing, Fresh
  <1>3. CASE pc[d] = "next" /\ F(d)' = F(d)
    <2> USE <1>3 DEF Same
    <2>1. Entering(d) => Entering(d)'
      BY DEF Entering, Fresh, HandlerOf
    <2>2. Leaving(d) => Leaving(d)'
      BY DEF Leaving, Progress, HandlerOf
    <2>3. LeavingNotFound(d) => LeavingNotFound(d)'
      BY DEF LeavingNotFound
    <2> QED BY <2>1, <2>2, <2>3 DEF Stage
  <1>4. CASE pc[d] = "call" /\ F(d)' = F(d)
    BY <1>4 DEF Same, Stage, Calling, Progress, HandlerOf
  <1>5. CASE pc[d] = "put"
    BY <1>5 DEF Same, Stage, Answered, HandlerOf
  <1>6. CASE pc[d] \notin Pcs
    BY <1>6 DEF Same, Stage, Pcs
  <1> QED BY <1>1, <1>2, <1>3, <1>4, <1>5, <1>6 DEF Pcs

\* A step that changes only what belongs to request c and the Context x that
\* no other request holds keeps RInv if it takes c to a stage.
LEMMA OwnStep ==
  ASSUME GInv, RInv, NEW c \in Conns, NEW x \in Contexts,
         \A d \in Conns \ {c} : Same(d) /\ held[d] # x,
         \A y \in Contexts \ {x} : ctx'[y] = ctx[y],
         ctx'[x].index \in -1 .. AbortIndex + 3,
         RequestTypes', Stage(c)'
  PROVE  RInv'
  <1>1. ASSUME NEW d \in Conns \ {c} PROVE Stage(d)'
    <2>1. Stage(d) /\ Same(d)
      BY DEF RInv
    <2>2. pc[d] = "idle" \/ F(d)' = F(d)
      <3> SUFFICES ASSUME pc[d] # "idle" PROVE F(d)' = F(d)
        OBVIOUS
      <3>1. held[d] \in Contexts \ {x}
        BY Using
      <3> QED BY <2>1, <3>1 DEF F, Same
    <2> QED BY <2>1, <2>2, SameStage
  <1>2. \A y \in Contexts : ctx'[y].index \in -1 .. AbortIndex + 3
    BY DEF RInv
  <1> QED BY <1>1, <1>2 DEF RInv

\* Only request c of all requests moves.
OthersKept(c) ==
  \A d \in Conns \ {c} :
    /\ pc'[d] = pc[d] /\ frames'[d] = frames[d] /\ outcome'[d] = outcome[d]
    /\ done'[d] = done[d] /\ runs'[d] = runs[d] /\ log'[d] = log[d]

\* A step of a request that has a Context
LEMMA LocalOwn ==
  ASSUME GInv, RInv, NEW c \in Conns, pc[c] # "idle",
         NEW g \in Fields, g.writer = c, g.index \in -1 .. AbortIndex + 3,
         Set(held[c], g) \/ SendHeader(held[c], g),
         OthersKept(c), UNCHANGED <<req, held>>, RequestTypes', Stage(c)'
  PROVE  RInv'
  <1> DEFINE x == held[c]
  <1>1. x \in Contexts
    BY Using
  <1>2. \A d \in Conns \ {c} : held[d] # x
    BY <1>1, EngineConstants DEF GInv, ContextExclusive
  <1>3. \A d \in Conns \ {c} : wire'[d] = wire[d]
    BY DEF Set, SendHeader, GInv, Types
  <1>4. \A d \in Conns \ {c} : Same(d)
    BY <1>3 DEF Same, OthersKept
  <1>5. /\ \A y \in Contexts \ {x} : ctx'[y] = ctx[y]
        /\ ctx'[x].index = g.index
    BY <1>1 DEF Set, SendHeader, GInv, Types, Fields
  <1> HIDE DEF x
  <1> QED BY <1>1, <1>2, <1>4, <1>5, OwnStep

\* What Set and SendHeader leave behind for their own request
LEMMA AfterSet ==
  ASSUME GInv, NEW c \in Conns, pc[c] # "idle", held' = held,
         NEW g, Set(held[c], g)
  PROVE  F(c)' = g /\ wire' = wire
  BY Using DEF Set, F, GInv, Types

LEMMA AfterSend ==
  ASSUME GInv, NEW c \in Conns, pc[c] # "idle", held' = held,
         NEW g \in Fields, g.writer = c, SendHeader(held[c], g)
  PROVE  wire'[c] = IF g.written THEN wire[c] ELSE Append(wire[c], g.status)
  BY DEF SendHeader, GInv, Types

\* What is known of a request that has a Context
LEMMA Kept ==
  ASSUME GInv, RInv, NEW c \in Conns, pc[c] # "idle"
  PROVE  /\ F(c) \in Fields /\ F(c).writer = c /\ req[c] \in Requests
         /\ F(c).index \in -1 .. AbortIndex + 3
         /\ Stage(c)
  BY Using DEF GInv, Types, RInv, F

-----------------------------------------------------------------------------
(* ServeHTTP and handleHTTPRequest *)

LEMMA ServeStage ==
  ASSUME GInv, RInv, NEW c \in Conns, NEW r \in Requests, NEW x \in Contexts, Serve(c, r, x)
  PROVE  RInv'
  <1>1. \A d \in Conns \ {c} : held[d] # x
    BY EngineConstants DEF Serve, GInv, ContextExclusive
  <1>2. \A d \in Conns \ {c} : Same(d)
    BY DEF Same, Serve, GInv, Types
  <1>3. \A y \in Contexts \ {x} : ctx'[y] = ctx[y]
    BY DEF Serve, GInv, Types
  <1>4. ctx'[x].index = -1 /\ ctx'[x].status = 200 /\ ctx'[x].written = FALSE
    BY DEF Serve, GInv, Types, Reset, NewContext
  <1>5. Stage(c)'
    <2>1. pc'[c] = "route" /\ held'[c] = x
      BY DEF Serve, GInv, Types
    <2>2. Idle(c)
      BY DEF RInv, Stage, Serve
    <2>3. Fresh(c)' /\ frames'[c] = <<>>
      BY <2>2 DEF Idle, Fresh, Serve
    <2> QED BY <1>4, <2>1, <2>3 DEF Stage, Routing, F
  <1>6. RequestTypes'
    BY DEF Serve, RInv, RequestTypes
  <1>7. ctx'[x].index \in -1 .. AbortIndex + 3
    BY <1>4 DEF AbortIndex
  <1> QED BY <1>1, <1>2, <1>3, <1>5, <1>6, <1>7, OwnStep

LEMMA PutStage ==
  ASSUME GInv, RInv, NEW c \in Conns, Put(c)
  PROVE  RInv'
  <1> DEFINE x == held[c]
  <1>0. pc[c] = "put" /\ x \in Contexts
    BY Using DEF Put
  <1>1. \A d \in Conns \ {c} : held[d] # x
    BY <1>0, EngineConstants DEF GInv, ContextExclusive
  <1>2. \A d \in Conns \ {c} : Same(d)
    BY DEF Same, Put, GInv, Types, RInv, RequestTypes
  <1>3. ctx' = ctx /\ frames' = frames
    BY DEF Put
  <1>4. Stage(c)'
    <2>1. frames[c] = <<>>
      BY <1>0 DEF RInv, Stage, Answered
    <2>2. pc'[c] = "idle" /\ Fresh(c)'
      BY DEF Put, Fresh, GInv, Types, RInv, RequestTypes
    <2> QED BY <1>3, <2>1, <2>2 DEF Stage, Idle
  <1>5. RequestTypes'
    BY DEF Put, RInv, RequestTypes
  <1>6. ctx[x].index \in -1 .. AbortIndex + 3
    BY <1>0 DEF RInv
  <1> HIDE DEF x
  <1> QED BY <1>0, <1>1, <1>2, <1>3, <1>4, <1>5, <1>6, OwnStep

LEMMA DispatchStage ==
  ASSUME GInv, RInv, NEW c \in Conns, Dispatch(c)
  PROVE  RInv'
  <1> DEFINE f == F(c)
             h == HandlerOf(c)
             f1 == [f EXCEPT !.chain = Append(Middleware, h)]
             g == [f1 EXCEPT !.index = 0]
  <1>1. pc[c] = "route" /\ pc[c] # "idle" /\ h # NoHandler
    BY DEF Dispatch, HandlerOf
  <1>2. f \in Fields /\ f.writer = c /\ req[c] \in Requests
    BY <1>1, Kept
  <1>3. Fresh(c) /\ frames[c] = <<>> /\ f.status = 200 /\ ~f.written
    BY <1>1 DEF RInv, Stage, Routing
  <1>4. Append(Middleware, h) \in Chains
    BY <1>1, <1>2, EngineConstants DEF HandlerOf, Chains
  <1>5. Set(held[c], g) /\ pc' = [pc EXCEPT ![c] = "next"]
    BY DEF Dispatch, F, HandlerOf
  <1> HIDE DEF f
  <1>6. /\ g \in Fields /\ g.writer = c /\ g.index = 0 /\ g.status = f.status
        /\ g.written = f.written /\ g.chain = Append(Middleware, h)
    <2>1. /\ f1 \in Fields /\ f1.writer = c /\ f1.status = f.status
          /\ f1.written = f.written /\ f1.chain = Append(Middleware, h)
      BY <1>2, <1>4 DEF Fields
    <2> HIDE DEF f1
    <2> QED BY <2>1 DEF Fields
  <1> HIDE DEF g
  <1>7. UNCHANGED <<req, held, outcome, done, runs, log, frames>>
    BY DEF Dispatch
  <1>8. Stage(c)'
    <2>1. F(c)' = g /\ wire' = wire
      BY <1>1, <1>5, <1>7, AfterSet
    <2>2. pc'[c] = "next"
      BY <1>5 DEF GInv, Types
    <2>3. Entering(c)'
      BY <1>1, <1>3, <1>6, <1>7, <2>1 DEF Entering, Fresh, HandlerOf
    <2> QED BY <2>2, <2>3 DEF Stage
  <1>9. g.index \in -1 .. AbortIndex + 3
    BY <1>6 DEF AbortIndex
  <1>10. OthersKept(c) /\ RequestTypes'
    BY <1>5, <1>7 DEF OthersKept, GInv, Types, RInv, RequestTypes
  <1> QED BY <1>1, <1>5, <1>6, <1>7, <1>8, <1>9, <1>10, LocalOwn

LEMMA NotFoundStage ==
  ASSUME GInv, RInv, NEW c \in Conns, NotFound(c)
  PROVE  RInv'
  <1> DEFINE f == F(c)
             f1 == [f EXCEPT !.status = 404]
             f2 == [f1 EXCEPT !.chain = Middleware]
             g == [f2 EXCEPT !.index = 0]
  <1>1. pc[c] = "route" /\ pc[c] # "idle"
    BY DEF NotFound
  <1>2. f \in Fields /\ f.writer = c /\ req[c] \in Requests
    BY <1>1, Kept
  <1>3. Fresh(c) /\ frames[c] = <<>> /\ ~f.written
    BY <1>1 DEF RInv, Stage, Routing
  <1>4. Middleware \in Chains /\ 404 \in Statuses
    BY DEF Chains, Statuses
  <1>5. Set(held[c], g) /\ pc' = [pc EXCEPT ![c] = "next"]
    BY DEF NotFound, F
  <1> HIDE DEF f
  <1>6. /\ g \in Fields /\ g.writer = c /\ g.index = 0 /\ g.status = 404
        /\ g.written = f.written /\ g.chain = Middleware
    <2>1. f1 \in Fields /\ f1.writer = c /\ f1.status = 404 /\ f1.written = f.written
      BY <1>2, <1>4 DEF Fields
    <2> HIDE DEF f1
    <2>2. /\ f2 \in Fields /\ f2.writer = c /\ f2.status = 404
          /\ f2.written = f.written /\ f2.chain = Middleware
      BY <1>4, <2>1 DEF Fields
    <2> HIDE DEF f2
    <2> QED BY <2>2 DEF Fields
  <1> HIDE DEF g
  <1>7. UNCHANGED <<req, held, outcome, done, runs, log, frames>>
    BY DEF NotFound
  <1>8. Stage(c)'
    <2>1. F(c)' = g /\ wire' = wire
      BY <1>1, <1>5, <1>7, AfterSet
    <2>2. pc'[c] = "next"
      BY <1>5 DEF GInv, Types
    <2>3. Route[req[c]] = [handler |-> NoHandler, tsr |-> FALSE]
      BY DEF NotFound
    <2>4. Entering(c)'
      BY <1>3, <1>6, <1>7, <2>1, <2>3 DEF Entering, Fresh
    <2> QED BY <2>2, <2>4 DEF Stage
  <1>9. g.index \in -1 .. AbortIndex + 3
    BY <1>6 DEF AbortIndex
  <1>10. OthersKept(c) /\ RequestTypes'
    BY <1>5, <1>7 DEF OthersKept, GInv, Types, RInv, RequestTypes
  <1> QED BY <1>1, <1>5, <1>6, <1>7, <1>8, <1>9, <1>10, LocalOwn

LEMMA RedirectStage ==
  ASSUME GInv, RInv, NEW c \in Conns, Redirect(c)
  PROVE  RInv'
  <1> DEFINE f == F(c)
             q == RedirectStatus(req[c])
             g == [f EXCEPT !.status = q]
  <1>1. pc[c] = "route" /\ pc[c] # "idle"
    BY DEF Redirect
  <1>2. f \in Fields /\ f.writer = c /\ f.index \in -1 .. AbortIndex + 3
    BY <1>1, Kept
  <1>3. Fresh(c) /\ frames[c] = <<>> /\ ~f.written
    BY <1>1 DEF RInv, Stage, Routing
  <1>4. q \in Statuses
    BY DEF RedirectStatus, Statuses
  <1>5. SendHeader(held[c], g) /\ pc' = [pc EXCEPT ![c] = "put"]
    BY DEF Redirect, F
  <1> HIDE DEF f
  <1>6. /\ g \in Fields /\ g.writer = c /\ g.status = q
        /\ g.written = f.written /\ g.index = f.index
    BY <1>2, <1>4 DEF Fields
  <1> HIDE DEF g
  <1>7. UNCHANGED <<req, held, outcome, done, runs, log, frames>>
    BY DEF Redirect
  <1>8. Stage(c)'
    <2>1. wire'[c] = <<q>>
      <3>1. wire'[c] = Append(wire[c], q)
        BY <1>1, <1>3, <1>5, <1>6, <1>7, AfterSend
      <3> QED BY <1>3, <3>1 DEF Fresh
    <2>2. pc'[c] = "put"
      BY <1>5 DEF GInv, Types
    <2>3. HandlerOf(c) = NoHandler /\ Route[req[c]].tsr
      BY DEF Redirect, HandlerOf
    <2>4. Answered(c)'
      BY <1>3, <1>7, <2>1, <2>3 DEF Answered, Fresh, HandlerOf
    <2> QED BY <2>2, <2>4 DEF Stage
  <1>9. g.index \in -1 .. AbortIndex + 3
    BY <1>2, <1>6
  <1>10. OthersKept(c) /\ RequestTypes'
    BY <1>5, <1>7 DEF OthersKept, GInv, Types, RInv, RequestTypes
  <1> QED BY <1>1, <1>5, <1>6, <1>7, <1>8, <1>9, <1>10, LocalOwn

-----------------------------------------------------------------------------
(* The loops of Context.Next *)

\* Appending to a sequence of one element
LEMMA AppendOne ==
  ASSUME NEW S, NEW a \in S, NEW b \in S
  PROVE  Append(<<a>>, b) = <<a, b>>
  <1> DEFINE s == <<a>>
             t == <<a, b>>
             u == Append(s, b)
  <1>1. s \in Seq(S) /\ t \in Seq(S)
    OBVIOUS
  <1>2. Len(s) = 1 /\ s[1] = a
    OBVIOUS
  <1>3. Len(t) = 2 /\ t[1] = a /\ t[2] = b
    OBVIOUS
  <1> HIDE DEF s, t
  <1>4. u \in Seq(S) /\ Len(u) = 2 /\ u[1] = a /\ u[2] = b
    <2>1. /\ u \in Seq(S)
          /\ Len(u) = Len(s) + 1
          /\ \A i \in 1 .. Len(s) : u[i] = s[i]
          /\ u[Len(s) + 1] = b
      BY <1>1, AppendProperties
    <2> HIDE DEF u
    <2> QED BY <1>2, <2>1
  <1> HIDE DEF u
  <1>5. \A i \in 1 .. Len(u) : u[i] = t[i]
    <2> SUFFICES ASSUME NEW i \in 1 .. Len(u) PROVE u[i] = t[i]
      OBVIOUS
    <2>1. i = 1 \/ i = 2
      BY <1>4
    <2> QED BY <2>1, <1>3, <1>4
  <1>6. u = t
    BY <1>1, <1>3, <1>4, <1>5, SeqEqual
  <1> QED BY <1>6 DEF s, t, u

\* Appending to, and shortening, a sequence of two elements
LEMMA AppendTwo ==
  ASSUME NEW S, NEW a \in S, NEW b \in S, NEW d \in S
  PROVE  /\ Len(Append(<<a, b>>, d)) = 3 /\ Append(<<a, b>>, d)[1] = a
         /\ Append(<<a, b>>, d)[2] = b /\ Append(<<a, b>>, d)[3] = d
         /\ SubSeq(<<a, b>>, 1, Len(<<a, b>>) - 1) = <<a>>
  <1> DEFINE m == <<a, b>>
             u == Append(m, d)
             t == <<a>>
             k == SubSeq(m, 1, 1)
  <1>1. m \in Seq(S) /\ Len(m) = 2 /\ m[1] = a /\ m[2] = b
    OBVIOUS
  <1>2. t \in Seq(S) /\ Len(t) = 1 /\ t[1] = a
    OBVIOUS
  <1> HIDE DEF m, t
  <1>3. /\ u \in Seq(S)
        /\ Len(u) = Len(m) + 1
        /\ \A i \in 1 .. Len(m) : u[i] = m[i]
        /\ u[Len(m) + 1] = d
    <2>1. m \in Seq(S)
      BY <1>1
    <2> QED BY <2>1, AppendProperties
  <1>4. k \in Seq(S) /\ Len(k) = 1 /\ k[1] = m[1]
    BY <1>1, SubSeqProperties
  <1> HIDE DEF u, k
  <1>5. Len(u) = 3 /\ u[1] = a /\ u[2] = b /\ u[3] = d
    BY <1>1, <1>3
  <1>6. \A i \in 1 .. Len(k) : k[i] = t[i]
    BY <1>1, <1>2, <1>4
  <1>7. k = t
    BY <1>2, <1>4, <1>6, SeqEqual
  <1>8. Len(m) - 1 = 1
    BY <1>1
  <1> QED BY <1>5, <1>7, <1>8 DEF m, t, u, k

\* The chains: two middlewares, and at most one handler after them
LEMMA ChainShape ==
  /\ Len(Middleware) = 2 /\ Middleware[1] = "Recovery" /\ Middleware[2] = "Logger"
  /\ \A h \in Handlers : /\ Len(Append(Middleware, h)) = 3
                         /\ Append(Middleware, h)[1] = "Recovery"
                         /\ Append(Middleware, h)[2] = "Logger"
                         /\ Append(Middleware, h)[3] = h
  /\ \A h \in Handlers : h \notin {"Recovery", "Logger"}
  <1> DEFINE S == Handlers \cup {"Recovery", "Logger"}
  <1>1. Len(Middleware) = 2 /\ Middleware[1] = "Recovery" /\ Middleware[2] = "Logger"
    BY DEF Middleware
  <1>2. "Recovery" \in S /\ "Logger" \in S /\ \A h \in Handlers : h \in S
    OBVIOUS
  <1> HIDE DEF S
  <1>3. \A h \in Handlers : /\ Len(Append(Middleware, h)) = 3
                            /\ Append(Middleware, h)[1] = "Recovery"
                            /\ Append(Middleware, h)[2] = "Logger"
                            /\ Append(Middleware, h)[3] = h
    BY <1>2, AppendTwo DEF Middleware
  <1>4. \A h \in Handlers : h \notin {"Recovery", "Logger"}
    BY DEF Handlers
  <1> QED BY <1>1, <1>3, <1>4

\* The stacks of middlewares that the loops go through
LEMMA Stacks ==
  /\ Append(<<>>, "Recovery") = <<"Recovery">>
  /\ Append(<<"Recovery">>, "Logger") = Middleware
  /\ SubSeq(Middleware, 1, Len(Middleware) - 1) = <<"Recovery">>
  /\ SubSeq(<<"Recovery">>, 1, Len(<<"Recovery">>) - 1) = <<>>
  /\ Middleware # <<>> /\ <<"Recovery">> # <<>> /\ Middleware # <<"Recovery">>
  /\ <<"Recovery">>[Len(<<"Recovery">>)] = "Recovery"
  /\ Middleware[Len(Middleware)] = "Logger"
  <1> DEFINE S == {"Recovery", "Logger"}
  <1>0. "Recovery" \in S /\ "Logger" \in S
    OBVIOUS
  <1> HIDE DEF S
  <1>1. Append(<<>>, "Recovery") = <<"Recovery">>
    OBVIOUS
  <1>2. Append(<<"Recovery">>, "Logger") = Middleware
    BY <1>0, AppendOne DEF Middleware
  <1>3. SubSeq(Middleware, 1, Len(Middleware) - 1) = <<"Recovery">>
    BY <1>0, AppendTwo DEF Middleware
  <1>4. SubSeq(<<"Recovery">>, 1, Len(<<"Recovery">>) - 1) = <<>>
    OBVIOUS
  <1>5. /\ Middleware # <<>> /\ <<"Recovery">> # <<>> /\ Middleware # <<"Recovery">>
        /\ <<"Recovery">>[Len(<<"Recovery">>)] = "Recovery"
    BY DEF Middleware
  <1>6. Middleware[Len(Middleware)] = "Logger"
    BY ChainShape
  <1> QED BY <1>1, <1>2, <1>3, <1>4, <1>5, <1>6

LEMMA HandlerKnown ==
  ASSUME GInv, NEW c \in Conns, pc[c] # "idle", HandlerOf(c) # NoHandler
  PROVE  HandlerOf(c) \in Handlers
  BY Using, EngineConstants DEF HandlerOf

\* In a loop the middlewares are still being entered, and the index names the
\* next handler: once one of them was left the index is past the chain.
LEMMA LoopStages ==
  ASSUME GInv, RInv, NEW c \in Conns, pc[c] = "next"
  PROVE  /\ InLoop(c) =>
              /\ Entering(c)
              /\ F(c).index = 0 => Current(c) = "Recovery"
              /\ F(c).index = 1 => Current(c) = "Logger"
              /\ F(c).index = 2 =>
                   /\ HandlerOf(c) \in Handlers
                   /\ Current(c) = HandlerOf(c)
         /\ LoopOver(c) =>
              \/ Leaving(c)
              \/ LeavingNotFound(c)
              \/ Entering(c) /\ F(c).index = 2 /\ HandlerOf(c) = NoHandler
  <1> DEFINE f == F(c)
             h == HandlerOf(c)
             n == Len(f.chain)
  <1>1. pc[c] # "idle"
    OBVIOUS
  <1>2. h # NoHandler => h \in Handlers
    BY <1>1, HandlerKnown
  <1>3. InLoop(c) <=> f.index < n
    BY DEF InLoop, F
  <1>4. LoopOver(c) <=> f.index >= n
    BY DEF LoopOver, F
  <1>5. Current(c) = f.chain[f.index + 1]
    BY DEF Current, F
  <1>6. Entering(c) \/ Leaving(c) \/ LeavingNotFound(c)
    BY DEF RInv, Stage
  <1> HIDE DEF f
  <1>7. ASSUME Leaving(c) PROVE f.index >= n /\ ~(f.index < n)
    <2>1. h \in Handlers /\ f.chain = Append(Middleware, h)
      BY <1>2, <1>7 DEF Leaving, Progress, f
    <2>2. n = 3
      BY <2>1, ChainShape
    <2>3. f.index \in {3, 4, 5, 64, 65, 66}
      BY <1>7 DEF Leaving, f, AbortIndex
    <2> QED BY <2>2, <2>3
  <1>8. ASSUME LeavingNotFound(c) PROVE f.index >= n /\ ~(f.index < n)
    BY <1>8, ChainShape DEF LeavingNotFound, f
  <1>9. ASSUME Entering(c)
        PROVE  /\ f.index < n =>
                     /\ f.index = 0 => f.chain[f.index + 1] = "Recovery"
                     /\ f.index = 1 => f.chain[f.index + 1] = "Logger"
                     /\ f.index = 2 => h \in Handlers /\ f.chain[f.index + 1] = h
               /\ f.index >= n => f.index = 2 /\ h = NoHandler
    <2>1. f.index \in {0, 1, 2}
      BY <1>9 DEF Entering, f
    <2>2. CASE h # NoHandler
      <3>1. f.chain = Append(Middleware, h) /\ h \in Handlers
        BY <1>2, <1>9, <2>2 DEF Entering, f, HandlerOf
      <3>2. n = 3 /\ f.chain[1] = "Recovery" /\ f.chain[2] = "Logger" /\ f.chain[3] = h
        BY <3>1, ChainShape
      <3> QED BY <2>1, <3>1, <3>2
    <2>3. CASE h = NoHandler
      <3>1. f.chain = Middleware
        BY <1>9, <2>3 DEF Entering, f, HandlerOf
      <3>2. n = 2 /\ f.chain[1] = "Recovery" /\ f.chain[2] = "Logger"
        BY <3>1, ChainShape
      <3> QED BY <2>1, <2>3, <3>2
    <2> QED BY <2>2, <2>3
  <1> HIDE DEF n
  <1> QED BY <1>3, <1>4, <1>5, <1>6, <1>7, <1>8, <1>9 DEF f

\* Moving the index on
LEMMA Stepped ==
  ASSUME NEW f \in Fields
  PROVE  LET g == [f EXCEPT !.index = @ + 1]
         IN  /\ g \in Fields /\ g.index = f.index + 1
             /\ g.writer = f.writer /\ g.chain = f.chain
             /\ g.status = f.status /\ g.written = f.written
  BY DEF Fields

\* A middleware is entered.
LEMMA EnterStage ==
  ASSUME GInv, RInv, NEW c \in Conns, Enter(c)
  PROVE  RInv'
  <1> DEFINE f == F(c)
             g == [f EXCEPT !.index = @ + 1]
  <1>1. pc[c] = "next" /\ pc[c] # "idle" /\ InLoop(c)
    BY DEF Enter, InLoop
  <1>2. f \in Fields /\ f.writer = c
    BY <1>1, Kept
  <1>3. Set(held[c], g)
    BY DEF Enter, Step, F
  <1>4. /\ Entering(c)
        /\ f.index = 0 => Current(c) = "Recovery"
        /\ f.index = 1 => Current(c) = "Logger"
        /\ f.index = 2 => Current(c) \in Handlers
    BY <1>1, LoopStages
  <1>5. /\ UNCHANGED <<req, held, outcome, done, runs, log, pc>>
        /\ Current(c) \in {"Recovery", "Logger"}
        /\ frames' = [frames EXCEPT ![c] = Append(@, Current(c))]
    BY DEF Enter, Serving
  <1>6. \/ /\ f.index = 0 /\ frames[c] = <<>> /\ Append(frames[c], Current(c)) = <<"Recovery">>
        \/ /\ f.index = 1 /\ frames[c] = <<"Recovery">>
           /\ Append(frames[c], Current(c)) = Middleware
    <2>1. f.index # 2
      BY <1>4, <1>5, ChainShape
    <2>2. \/ f.index = 0 /\ frames[c] = <<>>
          \/ f.index = 1 /\ frames[c] = <<"Recovery">>
      BY <1>4, <2>1 DEF Entering
    <2> QED BY <1>4, <2>2, Stacks
  <1>7. /\ frames'[c] = Append(frames[c], Current(c))
        /\ frames' \in [Conns -> {<<>>, <<"Recovery">>, Middleware}]
    BY <1>5, <1>6 DEF RInv, RequestTypes
  <1>8. F(c)' = g /\ wire' = wire
    BY <1>1, <1>3, <1>5, AfterSet
  <1>9. /\ g \in Fields /\ g.index = f.index + 1 /\ g.writer = c /\ g.chain = f.chain
        /\ g.status = f.status /\ g.written = f.written
    BY <1>2, Stepped
  <1> HIDE DEF f, g
  <1>10. Stage(c)'
    <2>1. Fresh(c)'
      BY <1>4, <1>5, <1>8 DEF Entering, Fresh
    <2>2. ~g.written
      BY <1>4, <1>9 DEF Entering, f
    <2>3. \/ /\ HandlerOf(c)' # NoHandler
             /\ g.chain = Append(Middleware, HandlerOf(c)') /\ g.status = 200
          \/ /\ Route[req'[c]] = [handler |-> NoHandler, tsr |-> FALSE]
             /\ g.chain = Middleware /\ g.status = 404
      BY <1>4, <1>5, <1>9 DEF Entering, f, HandlerOf
    <2>4. \/ g.index = 1 /\ frames'[c] = <<"Recovery">>
          \/ g.index = 2 /\ frames'[c] = Middleware
      BY <1>6, <1>7, <1>9
    <2>5. Entering(c)'
      BY <1>8, <2>1, <2>2, <2>3, <2>4 DEF Entering
    <2> QED BY <1>1, <1>5, <2>5 DEF Stage
  <1>11. g.index \in -1 .. AbortIndex + 3
    <2>1. f.index \in {0, 1}
      BY <1>6
    <2>2. g.index \in {1, 2}
      BY <1>9, <2>1
    <2> QED BY <2>2 DEF AbortIndex
  <1>12. OthersKept(c) /\ RequestTypes'
    BY <1>5, <1>7 DEF OthersKept, RInv, RequestTypes
  <1> QED BY <1>1, <1>3, <1>5, <1>9, <1>10, <1>11, <1>12, LocalOwn

\* The main handler is called: the first and only time.
LEMMA CallStage ==
  ASSUME GInv, RInv, NEW c \in Conns, Call(c)
  PROVE  RInv'
  <1> DEFINE f == F(c)
  <1>1. pc[c] = "next" /\ pc[c] # "idle" /\ InLoop(c) /\ Current(c) \in Handlers
    BY DEF Call, InLoop
  <1>2. f \in Fields /\ f.writer = c /\ f.index \in -1 .. AbortIndex + 3
    BY <1>1, Kept
  <1>3. /\ Entering(c) /\ f.index = 2 /\ HandlerOf(c) \in Handlers
    <2>1. /\ Entering(c)
          /\ f.index = 0 => Current(c) = "Recovery"
          /\ f.index = 1 => Current(c) = "Logger"
          /\ f.index = 2 => HandlerOf(c) \in Handlers
      BY <1>1, LoopStages
    <2>2. f.index \in {0, 1, 2}
      BY <2>1 DEF Entering
    <2> QED BY <1>1, <2>1, <2>2, ChainShape
  <1>4. Set(held[c], f)
    <2>1. ctx = [ctx EXCEPT ![held[c]] = ctx[held[c]]]
      BY <1>1, Using DEF GInv, Types
    <2> QED BY <2>1 DEF Call, Set, F
  <1>5. /\ UNCHANGED <<req, held, frames, wire, log, ctx>>
        /\ done' = [done EXCEPT ![c] = 0]
        /\ runs' = [runs EXCEPT ![c] = @ + 1]
        /\ pc' = [pc EXCEPT ![c] = "call"]
        /\ \E s : outcome' = [outcome EXCEPT ![c] = s]
    BY DEF Call
  <1>6. /\ pc'[c] = "call" /\ done'[c] = 0 /\ runs'[c] = runs[c] + 1
        /\ outcome'[c] \in AllScripts
    <2>1. GInv'
      BY GinStep DEF Next, EngineStep
    <2> QED BY <1>5, <2>1 DEF GInv, Types, RInv, RequestTypes
  <1>7. Stage(c)'
    <2> HIDE DEF f
    <2> DEFINE s == outcome'[c]
    <2>1. F(c)' = f
      BY <1>5 DEF F, f
    <2>2. Fresh(c) /\ ~f.written /\ f.status = 200 /\ frames[c] = Middleware
      BY <1>3 DEF Entering, f, HandlerOf, Handlers, NoHandler
    <2>3. HandlerOf(c) # NoHandler /\ f.chain = Append(Middleware, HandlerOf(c))
      BY <1>3 DEF Entering, f, HandlerOf, Handlers, NoHandler
    <2>4. Len(s) \in Nat
      BY <1>6, ScriptShape
    <2>5. NotedStatus(s, 0, 200) /\ ~Wrote(s, 0)
      BY DEF NotedStatus, Wrote
    <2> HIDE DEF s
    <2>6. Progress(c)'
      BY <1>5, <1>6, <2>1, <2>2, <2>3, <2>4, <2>5 DEF Progress, Fresh, HandlerOf, s
    <2>7. Calling(c)'
      BY <1>3, <1>5, <2>1, <2>2, <2>6 DEF Calling, Fresh, f
    <2> QED BY <1>6, <2>7 DEF Stage
  <1>8. OthersKept(c) /\ RequestTypes'
    <2>1. runs' \in [Conns -> Nat]
      BY <1>5 DEF RInv, RequestTypes
    <2> QED BY <1>5, <2>1 DEF OthersKept, GInv, Types, RInv, RequestTypes
  <1> HIDE DEF f
  <1> QED BY <1>1, <1>2, <1>4, <1>5, <1>7, <1>8, LocalOwn

-----------------------------------------------------------------------------
(* What the main handler does *)

\* The next call of a handler that is making one
LEMMA MakingStage ==
  ASSUME GInv, RInv, NEW c \in Conns, NEW op, Making(c, op)
  PROVE  /\ pc[c] = "call" /\ Calling(c)
         /\ outcome[c] \in AllScripts /\ outcome[c] \in Seq(Calls)
         /\ done[c] \in Nat
         /\ done[c] + 1 \in 1 .. Len(outcome[c])
         /\ NextOp(c) = outcome[c][done[c] + 1]
         /\ NextOp(c).op = op
         /\ done' = [done EXCEPT ![c] = @ + 1]
         /\ done'[c] = done[c] + 1
  <1>1. /\ pc[c] = "call" /\ NextOp(c).op = op
        /\ done' = [done EXCEPT ![c] = @ + 1]
        /\ NextOp(c) = outcome[c][done[c] + 1]
        /\ done[c] < Len(outcome[c])
    BY DEF Making, NextOp
  <1>2. outcome[c] \in AllScripts /\ done[c] \in Nat /\ done'[c] = done[c] + 1
    BY <1>1 DEF GInv, Types
  <1>3. outcome[c] \in Seq(Calls) /\ Len(outcome[c]) \in Nat
    BY <1>2, ScriptShape
  <1>4. done[c] + 1 \in 1 .. Len(outcome[c])
    BY <1>1, <1>2, <1>3
  <1>5. Calling(c)
    BY <1>1 DEF RInv, Stage
  <1> QED BY <1>1, <1>2, <1>3, <1>4, <1>5

\* A call that notes a status: WriteHeader, and the failure of a rendering
LEMMA NoteStage ==
  ASSUME GInv, RInv, NEW c \in Conns, NEW op, op # "write", Making(c, op),
         NEW g \in Fields, Set(held[c], g),
         g.writer = c, g.chain = F(c).chain, g.written = F(c).written,
         g.status = NextOp(c).code, g.index \in {2, AbortIndex},
         UNCHANGED <<Serving, frames, outcome, runs, log>>
  PROVE  RInv'
  <1> DEFINE s == outcome[c]
             n == done[c]
  <1>1. /\ pc[c] = "call" /\ Calling(c) /\ n \in Nat /\ n + 1 \in 1 .. Len(s)
        /\ NextOp(c) = s[n + 1] /\ s[n + 1].op # "write"
        /\ done' = [done EXCEPT ![c] = @ + 1] /\ done'[c] = n + 1
    BY MakingStage
  <1>2. F(c)' = g /\ wire' = wire /\ UNCHANGED <<pc, req, held, frames, outcome, runs, log>>
    <2>1. UNCHANGED <<pc, req, held, frames, outcome, runs, log>>
      BY DEF Serving
    <2> QED BY <1>1, <2>1, AfterSet
  <1>3. Progress(c)'
    <2>1. Progress(c)
      BY <1>1 DEF Calling
    <2>2. NotedStatus(s, n + 1, g.status)
      BY <1>1, <2>1, NotedNext DEF Progress
    <2>3. Wrote(s, n + 1) <=> Wrote(s, n)
      BY <1>1, WroteNext
    <2>4. n + 1 \in 0 .. Len(s)
      BY <1>1
    <2> HIDE DEF s, n
    <2> QED BY <1>1, <1>2, <2>1, <2>2, <2>3, <2>4 DEF Progress, HandlerOf, s, n
  <1>4. Stage(c)'
    <2>1. Calling(c)'
      BY <1>1, <1>2, <1>3 DEF Calling
    <2> QED BY <1>1, <1>2, <2>1 DEF Stage
  <1>5. g.index \in -1 .. AbortIndex + 3
    BY DEF AbortIndex
  <1>6. OthersKept(c) /\ RequestTypes'
    BY <1>1, <1>2 DEF OthersKept, GInv, Types, RInv, RequestTypes
  <1>7. pc[c] # "idle" /\ UNCHANGED <<req, held>>
    BY <1>1, <1>2
  <1> QED BY <1>4, <1>5, <1>6, <1>7, LocalOwn

LEMMA WriteHeaderStage ==
  ASSUME GInv, RInv, NEW c \in Conns, WriteHeader(c)
  PROVE  RInv'
  <1> DEFINE f == F(c)
             q == NextOp(c).code
             g == [f EXCEPT !.status = q]
  <1>1. Making(c, "header") /\ Set(held[c], g)
        /\ UNCHANGED <<Serving, frames, outcome, runs, log>>
    BY DEF WriteHeader, F
  <1>2. Calling(c) /\ pc[c] # "idle" /\ q \in Statuses
    BY <1>1, MakingStage, ScriptCodes
  <1>3. f \in Fields /\ f.writer = c
    BY <1>2, Kept
  <1>4. f.index \in {2, AbortIndex}
    BY <1>2 DEF Calling
  <1> HIDE DEF f
  <1>5. /\ g \in Fields /\ g.writer = c /\ g.chain = f.chain /\ g.written = f.written
        /\ g.status = q /\ g.index = f.index
    BY <1>2, <1>3 DEF Fields
  <1> HIDE DEF g
  <1> QED BY <1>1, <1>4, <1>5, NoteStage DEF f

LEMMA RenderErrorStage ==
  ASSUME GInv, RInv, NEW c \in Conns, RenderError(c)
  PROVE  RInv'
  <1> DEFINE f == F(c)
             f1 == [f EXCEPT !.status = 500]
             g == [f1 EXCEPT !.index = AbortIndex]
  <1>1. Making(c, "fail") /\ Set(held[c], g)
        /\ UNCHANGED <<Serving, frames, outcome, runs, log>>
    BY DEF RenderError, F
  <1>2. Calling(c) /\ pc[c] # "idle" /\ NextOp(c).code = 500
    BY <1>1, MakingStage, FailCode
  <1>3. f \in Fields /\ f.writer = c
    BY <1>2, Kept
  <1> HIDE DEF f
  <1>4. /\ g \in Fields /\ g.writer = c /\ g.chain = f.chain /\ g.written = f.written
        /\ g.status = 500 /\ g.index = AbortIndex
    <2>1. /\ f1 \in Fields /\ f1.writer = c /\ f1.chain = f.chain
          /\ f1.written = f.written /\ f1.status = 500
      BY <1>3 DEF Fields, Statuses
    <2> HIDE DEF f1
    <2> QED BY <2>1 DEF Fields, AbortIndex
  <1> HIDE DEF g
  <1> QED BY <1>1, <1>2, <1>4, NoteStage DEF f

\* The first write sends the status noted so far, the others send nothing.
LEMMA WriteStage ==
  ASSUME GInv, RInv, NEW c \in Conns, Write(c)
  PROVE  RInv'
  <1> DEFINE f == F(c)
             g == [f EXCEPT !.written = TRUE]
             s == outcome[c]
             n == done[c]
  <1>1. Making(c, "write") /\ SendHeader(held[c], f)
        /\ UNCHANGED <<Serving, frames, outcome, runs, log>>
    BY DEF Write, F
  <1>2. /\ pc[c] = "call" /\ pc[c] # "idle" /\ Calling(c) /\ n \in Nat
        /\ s \in Seq(Calls) /\ n + 1 \in 1 .. Len(s)
        /\ s[n + 1].op = "write"
        /\ done' = [done EXCEPT ![c] = @ + 1] /\ done'[c] = n + 1
    BY <1>1, MakingStage
  <1>3. f \in Fields /\ f.writer = c /\ f.index \in -1 .. AbortIndex + 3
    BY <1>2, Kept
  <1>4. UNCHANGED <<pc, req, held, frames, outcome, runs, log>>
    BY <1>1 DEF Serving
  <1>5. F(c)' = g
    BY <1>1, <1>2, <1>4, Using DEF SendHeader, F, GInv, Types
  <1>6. wire'[c] = IF f.written THEN wire[c] ELSE Append(wire[c], f.status)
    BY <1>1, <1>2, <1>3, <1>4, AfterSend
  <1> HIDE DEF f
  <1>7. g.written = TRUE /\ g.status = f.status /\ g.chain = f.chain /\ g.index = f.index
    BY <1>3 DEF Fields
  <1> HIDE DEF g
  <1>8. Progress(c)
    BY <1>2 DEF Calling
  <1>9. Progress(c)'
    <2>1. NotedStatus(s, n, f.status) /\ (f.written <=> Wrote(s, n))
          /\ wire[c] = IF f.written THEN <<StatusOf(s)>> ELSE <<>>
      BY <1>8 DEF Progress, f
    <2>2. NotedStatus(s, n + 1, f.status) /\ Wrote(s, n + 1) /\ n + 1 \in 0 .. Len(s)
      <3>1. NotedStatus(s, n + 1, f.status)
        BY <1>2, <2>1, NotedNext
      <3>2. Wrote(s, n + 1)
        BY <1>2, <2>1, WroteNext
      <3> QED
        BY <1>2, <3>1, <3>2
    <2>3. wire'[c] = <<StatusOf(s)>>
      <3>1. CASE f.written
        BY <1>6, <2>1, <3>1
      <3>2. CASE ~f.written
        <4>1. n \in 0 .. Len(s)
          BY <1>2
        <4>2. f.status = StatusOf(s)
          BY <1>2, <2>1, <3>2, <4>1, FirstStatus
        <4>3. wire'[c] = Append(<<>>, f.status)
          BY <1>6, <2>1, <3>2
        <4> QED BY <4>2, <4>3
      <3> QED BY <3>1, <3>2
    <2> HIDE DEF s, n
    <2> QED BY <1>2, <1>4, <1>5, <1>7, <1>8, <2>2, <2>3 DEF Progress, HandlerOf, s, n, f
  <1>10. Stage(c)'
    <2>1. Calling(c)'
      BY <1>2, <1>4, <1>5, <1>7, <1>9 DEF Calling, f
    <2> QED BY <1>2, <1>4, <2>1 DEF Stage
  <1>11. OthersKept(c) /\ RequestTypes'
    BY <1>2, <1>4 DEF OthersKept, GInv, Types, RInv, RequestTypes
  <1> QED BY <1>1, <1>2, <1>3, <1>4, <1>10, <1>11, LocalOwn

LEMMA ReturnStage ==
  ASSUME GInv, RInv, NEW c \in Conns, Return(c)
  PROVE  RInv'
  <1> DEFINE f == F(c)
             g == [f EXCEPT !.index = @ + 1]
  <1>1. /\ pc[c] = "call" /\ pc[c] # "idle" /\ done[c] = Len(outcome[c])
        /\ Set(held[c], g) /\ pc' = [pc EXCEPT ![c] = "next"]
        /\ UNCHANGED <<req, held, frames, outcome, done, runs, log>>
    BY DEF Return, Step, F
  <1>2. f \in Fields /\ f.writer = c
    BY <1>1, Kept
  <1>3. Calling(c)
    BY <1>1 DEF RInv, Stage
  <1>4. F(c)' = g /\ wire' = wire
    BY <1>1, AfterSet
  <1>5. /\ g \in Fields /\ g.index = f.index + 1 /\ g.writer = c /\ g.chain = f.chain
        /\ g.status = f.status /\ g.written = f.written
    BY <1>2, Stepped
  <1> HIDE DEF f, g
  <1>6. f.index \in {2, AbortIndex} /\ frames[c] = Middleware /\ log[c] = <<>> /\ Progress(c)
    BY <1>3 DEF Calling, f
  <1>7. g.index \in {3, AbortIndex + 1}
    BY <1>5, <1>6 DEF AbortIndex
  <1>8. Stage(c)'
    <2>1. Progress(c)'
      BY <1>1, <1>4, <1>5, <1>6 DEF Progress, HandlerOf, f
    <2>2. Leaving(c)'
      BY <1>1, <1>4, <1>6, <1>7, <2>1 DEF Leaving
    <2>3. pc'[c] = "next"
      BY <1>1 DEF GInv, Types
    <2> QED BY <2>2, <2>3 DEF Stage
  <1>9. g.index \in -1 .. AbortIndex + 3
    BY <1>7 DEF AbortIndex
  <1>10. OthersKept(c) /\ RequestTypes'
    BY <1>1 DEF OthersKept, GInv, Types, RInv, RequestTypes
  <1> QED BY <1>1, <1>5, <1>8, <1>9, <1>10, LocalOwn

\* A panic takes the request past Logger to the end of the chain.
LEMMA RecoverStage ==
  ASSUME GInv, RInv, NEW c \in Conns, Recover(c)
  PROVE  RInv'
  <1> DEFINE f == F(c)
             f1 == [f EXCEPT !.status = 500]
             f2 == [f1 EXCEPT !.index = AbortIndex]
             g == [f2 EXCEPT !.index = @ + 1]
             s == outcome[c]
             n == done[c]
  <1>1. /\ Making(c, "panic") /\ pc' = [pc EXCEPT ![c] = "next"]
        /\ frames' = [frames EXCEPT ![c] = <<>>]
        /\ Set(held[c], g)
        /\ UNCHANGED <<req, held, outcome, runs, log>>
    BY DEF Recover, Step, F
  <1>2. /\ pc[c] = "call" /\ pc[c] # "idle" /\ Calling(c) /\ n \in Nat
        /\ s \in AllScripts /\ n + 1 \in 1 .. Len(s)
        /\ s[n + 1].op = "panic"
        /\ done' = [done EXCEPT ![c] = @ + 1] /\ done'[c] = n + 1
    BY <1>1, MakingStage
  <1>3. s = <<Panic>> /\ s[n + 1].code = 500
    BY <1>2, PanicsAlone, FailCode
  <1>4. n + 1 = Len(s)
    <2>1. Len(s) = 1
      BY <1>3
    <2> HIDE DEF s
    <2> QED BY <1>2, <2>1
  <1>5. f \in Fields /\ f.writer = c
    BY <1>2, Kept
  <1>6. F(c)' = g /\ wire' = wire
    BY <1>1, <1>2, AfterSet
  <1> HIDE DEF f
  <1>7. /\ g \in Fields /\ g.writer = c /\ g.chain = f.chain /\ g.written = f.written
        /\ g.status = 500 /\ g.index = AbortIndex + 1
    <2>1. /\ f1 \in Fields /\ f1.writer = c /\ f1.chain = f.chain
          /\ f1.written = f.written /\ f1.status = 500
      BY <1>5 DEF Fields, Statuses
    <2> HIDE DEF f1
    <2>2. /\ f2 \in Fields /\ f2.writer = c /\ f2.chain = f.chain
          /\ f2.written = f.written /\ f2.status = 500 /\ f2.index = AbortIndex
      BY <2>1 DEF Fields, AbortIndex
    <2> HIDE DEF f2
    <2> QED BY <2>2, Stepped
  <1> HIDE DEF g
  <1>8. Progress(c)'
    <2>1. Progress(c)
      BY <1>2 DEF Calling
    <2>2. NotedStatus(s, n + 1, 500)
      BY <1>2, <1>3, <2>1, NotedNext DEF Progress
    <2>3. Wrote(s, n + 1) <=> Wrote(s, n)
      BY <1>2, WroteNext
    <2>4. n + 1 \in 0 .. Len(s)
      BY <1>2
    <2> HIDE DEF s, n
    <2> QED BY <1>1, <1>2, <1>6, <1>7, <2>1, <2>2, <2>3, <2>4
            DEF Progress, HandlerOf, s, n, f
  <1>9. Stage(c)'
    <2>1. log[c] = <<>>
      BY <1>2 DEF Calling
    <2>2. pc'[c] = "next" /\ frames'[c] = <<>>
      BY <1>1 DEF GInv, Types, RInv, RequestTypes
    <2>3. Leaving(c)'
      BY <1>1, <1>2, <1>3, <1>4, <1>6, <1>7, <1>8, <2>1, <2>2 DEF Leaving
    <2> QED BY <2>2, <2>3 DEF Stage
  <1>10. g.index \in -1 .. AbortIndex + 3
    BY <1>7 DEF AbortIndex
  <1>11. OthersKept(c) /\ RequestTypes'
    BY <1>1, <1>2 DEF OthersKept, GInv, Types, RInv, RequestTypes
  <1> QED BY <1>1, <1>2, <1>7, <1>9, <1>10, <1>11, LocalOwn

-----------------------------------------------------------------------------
(* Leaving the loops *)

\* A middleware returns; Logger, and only Logger, logs.
LEMMA LeaveStage ==
  ASSUME GInv, RInv, NEW c \in Conns, Leave(c)
  PROVE  RInv'
  <1> DEFINE f == F(c)
             g == [f EXCEPT !.index = @ + 1]
             w == frames[c]
             l == IF w[Len(w)] = "Logger" THEN Append(log[c], f.status) ELSE log[c]
  <1>1. /\ LoopOver(c) /\ pc[c] = "next" /\ pc[c] # "idle" /\ w # <<>>
        /\ Set(held[c], g)
        /\ frames' = [frames EXCEPT ![c] = SubSeq(w, 1, Len(w) - 1)]
        /\ log' = IF w[Len(w)] = "Logger"
                    THEN [log EXCEPT ![c] = Append(@, f.status)] ELSE log
        /\ UNCHANGED <<pc, req, held, outcome, done, runs>>
    BY DEF Leave, LoopOver, Step, F, Serving
  <1>2. f \in Fields /\ f.writer = c
    BY <1>1, Kept
  <1>3. F(c)' = g /\ wire' = wire
    BY <1>1, AfterSet
  <1>4. /\ g \in Fields /\ g.index = f.index + 1 /\ g.writer = c /\ g.chain = f.chain
        /\ g.status = f.status /\ g.written = f.written
    BY <1>2, Stepped
  <1> HIDE DEF f, g
  <1>5. /\ frames'[c] = SubSeq(w, 1, Len(w) - 1)
        /\ log'[c] = l
    BY <1>1 DEF RInv, RequestTypes
  <1>6. /\ w = Middleware => frames'[c] = <<"Recovery">> /\ log'[c] = Append(log[c], f.status)
        /\ w = <<"Recovery">> => frames'[c] = <<>> /\ log'[c] = log[c]
    BY <1>5, Stacks
  <1>7. w \in {<<"Recovery">>, Middleware}
    BY <1>1 DEF RInv, RequestTypes
  <1>8. \/ Leaving(c)
        \/ LeavingNotFound(c)
        \/ Entering(c) /\ f.index = 2 /\ HandlerOf(c) = NoHandler
    BY <1>1, LoopStages DEF f
  <1>9. /\ RequestTypes' /\ OthersKept(c)
    <2>1. /\ frames' \in [Conns -> {<<>>, <<"Recovery">>, Middleware}]
      BY <1>1, <1>5, <1>6, <1>7 DEF RInv, RequestTypes
    <2>2. f.status \in Statuses
      BY <1>2 DEF Fields
    <2>3. log' \in [Conns -> Seq(Statuses)]
      BY <1>1, <2>2 DEF RInv, RequestTypes
    <2> QED BY <1>1, <2>1, <2>3 DEF OthersKept, RInv, RequestTypes
  <1> HIDE DEF w, l
  <1>10. CASE Leaving(c)
    <2>1. Progress(c)'
      BY <1>1, <1>3, <1>4, <1>10 DEF Leaving, Progress, HandlerOf, f
    <2>2. \/ w = Middleware /\ f.index \in {3, AbortIndex + 1} /\ log[c] = <<>>
          \/ /\ w = <<"Recovery">> /\ f.index \in {4, AbortIndex + 2}
             /\ log[c] = <<f.status>>
      BY <1>1, <1>10 DEF Leaving, f, w
    <2>3. \/ /\ frames'[c] = <<"Recovery">> /\ g.index \in {4, AbortIndex + 2}
             /\ log'[c] = <<g.status>>
          \/ /\ frames'[c] = <<>> /\ g.index \in {5, AbortIndex + 3}
             /\ log'[c] = <<g.status>>
      <3>1. CASE w = Middleware /\ f.index \in {3, AbortIndex + 1} /\ log[c] = <<>>
        <4>1. g.index \in {4, AbortIndex + 2}
          BY <1>4, <3>1 DEF AbortIndex
        <4>2. log'[c] = Append(<<>>, g.status) /\ frames'[c] = <<"Recovery">>
          BY <1>4, <1>6, <3>1
        <4>3. Append(<<>>, g.status) = <<g.status>>
          OBVIOUS
        <4> QED BY <4>1, <4>2, <4>3
      <3>2. CASE /\ w = <<"Recovery">> /\ f.index \in {4, AbortIndex + 2}
                 /\ log[c] = <<f.status>>
        <4>1. g.index \in {5, AbortIndex + 3}
          BY <1>4, <3>2 DEF AbortIndex
        <4> QED BY <1>4, <1>6, <3>2, <4>1
      <3> QED BY <2>2, <3>1, <3>2
    <2>4. Leaving(c)'
      BY <1>1, <1>3, <1>10, <2>1, <2>3 DEF Leaving
    <2>5. Stage(c)'
      BY <1>1, <2>4 DEF Stage
    <2>6. g.index \in -1 .. AbortIndex + 3
      BY <2>3 DEF AbortIndex
    <2> QED BY <1>1, <1>4, <1>9, <2>5, <2>6, LocalOwn
  <1>11. CASE LeavingNotFound(c) \/ (Entering(c) /\ f.index = 2 /\ HandlerOf(c) = NoHandler)
    <2>1. /\ Route[req[c]] = [handler |-> NoHandler, tsr |-> FALSE]
          /\ f.chain = Middleware /\ f.status = 404 /\ ~f.written
          /\ outcome[c] = <<>> /\ done[c] = 0 /\ runs[c] = 0 /\ wire[c] = <<>>
          /\ \/ w = <<"Recovery">> /\ f.index = 3 /\ log[c] = <<404>>
             \/ w = Middleware /\ f.index = 2 /\ log[c] = <<>>
      <3>1. CASE LeavingNotFound(c)
        BY <1>1, <3>1 DEF LeavingNotFound, f, w
      <3>2. CASE Entering(c) /\ f.index = 2 /\ HandlerOf(c) = NoHandler
        BY <3>2 DEF Entering, Fresh, HandlerOf, f, w
      <3> QED BY <1>11, <3>1, <3>2
    <2>2. \/ frames'[c] = <<>> /\ g.index = 4 /\ log'[c] = <<404>>
          \/ frames'[c] = <<"Recovery">> /\ g.index = 3 /\ log'[c] = <<404>>
      <3>1. CASE w = <<"Recovery">> /\ f.index = 3 /\ log[c] = <<404>>
        BY <1>4, <1>6, <3>1
      <3>2. CASE w = Middleware /\ f.index = 2 /\ log[c] = <<>>
        <4>1. log'[c] = Append(<<>>, 404) /\ frames'[c] = <<"Recovery">>
          BY <1>6, <2>1, <3>2
        <4>2. g.index = 3
          BY <1>4, <3>2
        <4> QED BY <4>1, <4>2
      <3> QED BY <2>1, <3>1, <3>2
    <2>3. LeavingNotFound(c)'
      BY <1>1, <1>3, <1>4, <2>1, <2>2 DEF LeavingNotFound
    <2>4. Stage(c)'
      BY <1>1, <2>3 DEF Stage
    <2>5. g.index \in -1 .. AbortIndex + 3
      BY <2>2 DEF AbortIndex
    <2> QED BY <1>1, <1>4, <1>9, <2>4, <2>5, LocalOwn
  <1> QED BY <1>8, <1>10, <1>11

\* The outermost loop is over: what was not sent is sent.
LEMMA FinishStage ==
  ASSUME GInv, RInv, NEW c \in Conns, Finish(c)
  PROVE  RInv'
  <1> DEFINE f == F(c)
             s == outcome[c]
  <1>1. /\ LoopOver(c) /\ pc[c] = "next" /\ pc[c] # "idle" /\ frames[c] = <<>>
        /\ SendHeader(held[c], f) /\ pc' = [pc EXCEPT ![c] = "put"]
        /\ UNCHANGED <<req, held, frames, outcome, done, runs, log>>
    BY DEF Finish, LoopOver, F
  <1>2. f \in Fields /\ f.writer = c /\ f.index \in -1 .. AbortIndex + 3
    BY <1>1, Kept
  <1>3. wire'[c] = IF f.written THEN wire[c] ELSE Append(wire[c], f.status)
    BY <1>1, <1>2, AfterSend
  <1>4. s \in Seq(Calls) /\ Len(s) \in Nat
    <2>1. s \in AllScripts
      BY DEF GInv, Types
    <2> QED BY <2>1, ScriptShape
  <1>5. f.status \in Statuses
    BY <1>2 DEF Fields
  <1> HIDE DEF f
  <1>6. Answered(c)'
    <2>1. CASE Leaving(c)
      <3>1. /\ HandlerOf(c) # NoHandler /\ runs[c] = 1 /\ done[c] = Len(s)
            /\ NotedStatus(s, Len(s), f.status)
            /\ f.written <=> Wrote(s, Len(s))
            /\ wire[c] = IF f.written THEN <<StatusOf(s)>> ELSE <<>>
        BY <2>1 DEF Leaving, Progress, f
      <3>2. log[c] = <<f.status>> \/ (log[c] = <<>> /\ s = <<Panic>>)
        BY <1>1, <2>1, Stacks DEF Leaving, f
      <3>3. wire'[c] = <<StatusOf(s)>>
        <4>1. CASE f.written
          BY <1>3, <3>1, <4>1
        <4>2. CASE ~f.written
          <5>1. Len(s) \in 0 .. Len(s)
            BY <1>4
          <5>2. f.status = StatusOf(s)
            BY <1>4, <3>1, <4>2, <5>1, FirstStatus
          <5>3. wire'[c] = Append(<<>>, f.status)
            BY <1>3, <3>1, <4>2
          <5> QED BY <5>2, <5>3
        <4> QED BY <4>1, <4>2
      <3> QED BY <1>1, <1>5, <3>1, <3>2, <3>3 DEF Answered, HandlerOf
    <2>2. CASE LeavingNotFound(c)
      <3>1. /\ Route[req[c]] = [handler |-> NoHandler, tsr |-> FALSE]
            /\ f.status = 404 /\ ~f.written
            /\ outcome[c] = <<>> /\ done[c] = 0 /\ runs[c] = 0 /\ wire[c] = <<>>
            /\ log[c] = <<404>>
        BY <2>2 DEF LeavingNotFound, f
      <3>2. wire'[c] = <<404>>
        <4>1. wire'[c] = Append(<<>>, 404)
          BY <1>3, <3>1
        <4> QED BY <4>1
      <3> QED BY <1>1, <3>1, <3>2 DEF Answered, HandlerOf
    <2>3. CASE Entering(c) /\ f.index = 2 /\ HandlerOf(c) = NoHandler
      BY <1>1, <2>3, Stacks DEF Entering, f
    <2> QED BY <1>1, <2>1, <2>2, <2>3, LoopStages DEF f
  <1>7. Stage(c)'
    <2>1. pc'[c] = "put"
      BY <1>1 DEF GInv, Types
    <2> QED BY <1>6, <2>1 DEF Stage
  <1>8. OthersKept(c) /\ RequestTypes'
    BY <1>1 DEF OthersKept, GInv, Types, RInv, RequestTypes
  <1> QED BY <1>1, <1>2, <1>7, <1>8, LocalOwn

-----------------------------------------------------------------------------
(* The theorems *)

LEMMA RequestStep == GInv /\ RInv /\ [Next]_vars => RInv'
  <1> SUFFICES ASSUME GInv, RInv, [Next]_vars PROVE RInv'
    OBVIOUS
  <1>1. ASSUME NEW c \in Conns, EngineStep(c) PROVE RInv'
    BY <1>1, DispatchStage, RedirectStage, NotFoundStage, EnterStage, CallStage,
       LeaveStage, WriteHeaderStage, WriteStage, RenderErrorStage, ReturnStage,
       RecoverStage, FinishStage, PutStage DEF EngineStep
  <1>2. CASE UNCHANGED vars
    <2>1. \A c \in Conns : Stage(c) /\ Same(c) /\ F(c)' = F(c)
      BY <1>2 DEF vars, RInv, Same, F
    <2>2. \A c \in Conns : Stage(c)'
      BY <2>1, SameStage
    <2> QED BY <1>2, <2>2 DEF vars, RInv, RequestTypes
  <1> QED BY <1>1, <1>2, ServeStage DEF Next

\* Every request is in one of its stages, for any number of connections.
THEOREM GinRequests == Spec => [](GInv /\ RInv)
  BY GinInit, GinStep, RequestInit, RequestStep, PTL DEF Spec

\* TypeOK: among others the shared index never runs further than three past
\* AbortIndex, the stack holds each middleware once and scripts are not
\* overrun.
THEOREM GinTypes == Spec => []TypeOK
  <1>1. GInv /\ RInv => TypeOK
    <2> SUFFICES ASSUME GInv, RInv PROVE TypeOK
      OBVIOUS
    <2>1. ASSUME NEW c \in Conns PROVE done[c] \in 0 .. 3
      <3>1. outcome[c] \in AllScripts /\ pc[c] \in Pcs /\ Stage(c)
        BY DEF GInv, Types, RInv
      <3>2. done[c] = 0 \/ done[c] \in 0 .. Len(outcome[c]) \/ done[c] = Len(outcome[c])
        BY <3>1 DEF Stage, Pcs, Idle, Routing, Fresh, Entering, Leaving, LeavingNotFound,
                    Calling, Progress, Answered
      <3>3. Len(outcome[c]) \in 0 .. 3
        BY <3>1, ScriptShape
      <3> DEFINE n == Len(outcome[c])
      <3> HIDE DEF n
      <3>4. done[c] = 0 \/ done[c] \in 0 .. n \/ done[c] = n
        BY <3>2 DEF n
      <3>5. n \in 0 .. 3
        BY <3>3 DEF n
      <3> QED BY <3>4, <3>5
    <2>2. done \in [Conns -> 0 .. 3]
      BY <2>1 DEF GInv, Types
    <2>3. ctx \in [Contexts -> ContextFields]
      <3>1. ASSUME NEW x \in Contexts PROVE ctx[x] \in ContextFields
        <4>1. ctx[x] \in Fields /\ ctx[x].index \in -1 .. AbortIndex + 3
          BY DEF GInv, Types, RInv
        <4> QED BY <4>1 DEF Fields, ContextFields
      <3> QED BY <3>1 DEF GInv, Types
    <2> QED BY <2>2, <2>3 DEF TypeOK, GInv, Types, RInv, RequestTypes, Pcs
  <1> QED BY <1>1, GinRequests, PTL

\* HandlerRunsOnce: although the loops of three frames run on one index, a
\* request's handler is called once, also if it fails or panics.
THEOREM GinHandlerRunsOnce == Spec => []HandlerRunsOnce
  <1>1. RInv => HandlerRunsOnce
    BY DEF RInv, Stage, Answered, HandlerOf, HandlerRunsOnce, Sent
  <1> QED BY <1>1, GinRequests, PTL

\* StatusIsTheRequests: a recycled Context, another request, an abort or a
\* panic never lends a request a status that its route and script do not have.
THEOREM GinStatusIsTheRequests == Spec => []StatusIsTheRequests
  <1>1. GInv /\ RInv => StatusIsTheRequests
    <2> SUFFICES ASSUME GInv, RInv, NEW c \in Conns, Sent(c)
                 PROVE  wire[c][1] =
                          LET r == Route[req[c]]
                          IN  CASE r.handler # NoHandler -> StatusOf(outcome[c])
                                [] r.handler = NoHandler /\ r.tsr -> RedirectStatus(req[c])
                                [] r.handler = NoHandler /\ ~r.tsr -> 404
      BY DEF StatusIsTheRequests
    <2>1. Answered(c)
      BY DEF RInv, Stage, Sent
    <2>2. \A x : <<x>>[1] = x
      OBVIOUS
    <2>3. CASE HandlerOf(c) # NoHandler
      <3>1. wire[c] = <<StatusOf(outcome[c])>>
        BY <2>1, <2>3 DEF Answered
      <3>2. wire[c][1] = StatusOf(outcome[c])
        BY <2>2, <3>1
      <3> QED BY <2>3, <3>2, Zenon DEF HandlerOf
    <2>4. CASE HandlerOf(c) = NoHandler /\ Route[req[c]].tsr
      <3>1. wire[c] = <<RedirectStatus(req[c])>>
        BY <2>1, <2>4 DEF Answered
      <3>2. wire[c][1] = RedirectStatus(req[c])
        BY <2>2, <3>1
      <3> QED BY <2>4, <3>2, Zenon DEF HandlerOf
    <2>5. CASE HandlerOf(c) = NoHandler /\ ~Route[req[c]].tsr
      <3>1. wire[c] = <<404>>
        BY <2>1, <2>5 DEF Answered
      <3>2. wire[c][1] = 404
        BY <2>2, <3>1
      <3> QED BY <2>5, <3>2, Zenon DEF HandlerOf
    <2> QED BY <2>3, <2>4, <2>5
  <1> QED BY <1>1, GinRequests, PTL

\* What is noted at the end of a script is what was sent, except after the
\* one that fails after its write.
LEMMA LastStatus ==
  ASSUME NEW s \in AllScripts, NEW x, NotedStatus(s, Len(s), x)
  PROVE  x = StatusOf(s) \/ (s = LateFailure /\ x = 500)
  <1>1. s \in Seq(Calls) /\ Len(s) \in Nat
    BY ScriptShape
  <1> DEFINE n == Len(s)
  <1>2. CASE s = LateFailure
    <2>1. n = 3 /\ s[3].op = "fail" /\ s[3].code = 500
      BY <1>2 DEF LateFailure, Fail
    <2> HIDE DEF n
    <2>2. 3 \in 1 .. n /\ s[3].op # "write" /\ \A i \in 1 .. n : i = 3 \/ 3 \in (i + 1) .. n
      BY <2>1
    <2>3. x = s[3].code
      BY <2>2 DEF NotedStatus, n
    <2> QED BY <1>2, <2>1, <2>3
  <1>3. CASE s # LateFailure /\ ~Wrote(s, n)
    <2>1. n \in 0 .. Len(s)
      BY <1>1
    <2> QED BY <1>1, <1>3, <2>1, FirstStatus
  <1>4. CASE s # LateFailure /\ Wrote(s, n)
    <2>1. PICK j \in 1 .. n : s[j].op = "write"
      BY <1>4 DEF Wrote
    <2>2. j = n
      BY <1>4, <2>1, WritesLast
    <2> DEFINE m == n - 1
    <2>3. m \in 0 .. n /\ m + 1 = n /\ \A i \in 1 .. m : i \in 1 .. n /\ i # n
      BY <1>1, <2>2
    <2>4. ~Wrote(s, m)
      BY <1>4, <2>3, WritesLast DEF Wrote
    <2>5. NotedStatus(s, m, x)
      <3>1. CASE x = 200 /\ \A i \in 1 .. n : s[i].op = "write"
        BY <2>3, <3>1 DEF NotedStatus
      <3>2. CASE \E i \in 1 .. n : /\ s[i].op # "write"
                                   /\ x = s[i].code
                                   /\ \A k \in (i + 1) .. n : s[k].op = "write"
        <4>1. PICK i \in 1 .. n : /\ s[i].op # "write"
                                  /\ x = s[i].code
                                  /\ \A k \in (i + 1) .. n : s[k].op = "write"
          BY <3>2
        <4>2. i \in 1 .. m /\ \A k \in (i + 1) .. m : k \in (i + 1) .. n
          BY <1>1, <2>1, <2>2, <2>3, <4>1
        <4> QED BY <4>1, <4>2 DEF NotedStatus
      <3> QED BY <3>1, <3>2 DEF NotedStatus
    <2> HIDE DEF m
    <2>6. s[m + 1].op = "write"
      BY <2>1, <2>2, <2>3
    <2> QED BY <1>1, <2>3, <2>4, <2>5, <2>6, FirstStatus
  <1> QED BY <1>2, <1>3, <1>4

\* LogIsTrue: the log has one line per request with the status that was sent,
\* but for redirects, panics and a rendering that fails after its first write.
THEOREM GinLogIsTrue == Spec => []LogIsTrue
  <1>1. GInv /\ RInv => LogIsTrue
    <2> SUFFICES ASSUME GInv, RInv, NEW c \in Conns, Sent(c)
                 PROVE  \/ log[c] = wire[c]
                        \/ /\ log[c] = <<>>
                           /\ IF runs[c] = 0 THEN Route[req[c]].tsr
                              ELSE outcome[c] = <<Panic>>
                        \/ log[c] = <<500>> /\ outcome[c] = <<Header(200), Body, Fail>>
      BY DEF LogIsTrue
    <2>1. Answered(c) /\ outcome[c] \in AllScripts
      BY DEF RInv, Stage, Sent, GInv, Types
    <2>2. CASE HandlerOf(c) # NoHandler
      <3>1. /\ runs[c] = 1 /\ wire[c] = <<StatusOf(outcome[c])>>
            /\ \/ log[c] = <<>> /\ outcome[c] = <<Panic>>
               \/ \E x \in Statuses : /\ NotedStatus(outcome[c], Len(outcome[c]), x)
                                      /\ log[c] = <<x>>
        BY <2>1, <2>2 DEF Answered
      <3>2. CASE log[c] = <<>> /\ outcome[c] = <<Panic>>
        BY <3>1, <3>2
      <3>3. CASE \E x \in Statuses : /\ NotedStatus(outcome[c], Len(outcome[c]), x)
                                     /\ log[c] = <<x>>
        <4>1. PICK x \in Statuses : /\ NotedStatus(outcome[c], Len(outcome[c]), x)
                                    /\ log[c] = <<x>>
          BY <3>3
        <4>2. x = StatusOf(outcome[c]) \/ (outcome[c] = LateFailure /\ x = 500)
          BY <2>1, <4>1, LastStatus
        <4> QED BY <3>1, <4>1, <4>2 DEF LateFailure
      <3> QED BY <3>1, <3>2, <3>3
    <2>3. CASE HandlerOf(c) = NoHandler
      BY <2>1, <2>3 DEF Answered
    <2> QED BY <2>2, <2>3
  <1> QED BY <1>1, GinRequests, PTL

-----------------------------------------------------------------------------
(* The exchange that browsers see *)

\* A handler that was called follows a script of its request's own handler.
OwnScript == \A c \in Conns : runs[c] # 0 => outcome[c] \in Scripts(HandlerOf(c))

LEMMA OwnScriptInit == Init => OwnScript
  BY DEF Init, OwnScript

\* Only Call chooses a script, and Serve and Put, which change the request,
\* leave no handler called.
LEMMA OwnScriptStep ==
  ASSUME GInv, RInv, OwnScript, [Next]_vars
  PROVE  OwnScript'
  <1>1. ASSUME NEW c \in Conns, Call(c) PROVE OwnScript'
    <2>1. pc[c] = "next" /\ InLoop(c) /\ Current(c) \in Handlers
      BY <1>1 DEF Call, InLoop
    <2>2. Current(c) = HandlerOf(c)
      <3>1. Entering(c)
        BY <2>1, LoopStages
      <3>2. F(c).index \in {0, 1, 2}
        BY <3>1 DEF Entering
      <3> QED BY <2>1, <3>2, LoopStages, ChainShape
    <2>3. PICK s \in Scripts(HandlerOf(c)) : outcome' = [outcome EXCEPT ![c] = s]
      BY <1>1, <2>2 DEF Call
    <2>4. \A d \in Conns : HandlerOf(d)' = HandlerOf(d)
      BY <1>1 DEF Call, HandlerOf
    <2>5. outcome'[c] = s /\ \A d \in Conns \ {c} : outcome'[d] = outcome[d]
      BY <2>3 DEF GInv, Types
    <2>6. \A d \in Conns \ {c} : runs'[d] = runs[d]
      BY <1>1 DEF Call, RInv, RequestTypes
    <2>7. ASSUME NEW d \in Conns, runs'[d] # 0
          PROVE  outcome'[d] \in Scripts(HandlerOf(d)')
      <3>1. CASE d = c
        BY <2>3, <2>4, <2>5, <3>1
      <3>2. CASE d # c
        BY <2>4, <2>5, <2>6, <2>7, <3>2 DEF OwnScript
      <3> QED BY <3>1, <3>2
    <2> QED BY <2>7 DEF OwnScript
  <1>2. ASSUME NEW c \in Conns, runs'[c] = 0,
               \A d \in Conns \ {c} : /\ outcome'[d] = outcome[d] /\ runs'[d] = runs[d]
                                      /\ req'[d] = req[d]
        PROVE  OwnScript'
    BY <1>2 DEF OwnScript, HandlerOf
  <1>3. ASSUME NEW c \in Conns, NEW r \in Requests, NEW x \in Contexts, Serve(c, r, x)
        PROVE  OwnScript'
    <2>1. runs[c] = 0
      BY <1>3 DEF Serve, RInv, Stage, Idle, Fresh
    <2>2. /\ runs' = runs /\ outcome' = outcome
          /\ \A d \in Conns \ {c} : req'[d] = req[d]
      BY <1>3 DEF Serve, GInv, Types
    <2> QED BY <1>2, <2>1, <2>2
  <1>4. ASSUME NEW c \in Conns, Put(c) PROVE OwnScript'
    <2>1. runs'[c] = 0
      BY <1>4 DEF Put, RInv, RequestTypes
    <2>2. \A d \in Conns \ {c} : /\ outcome'[d] = outcome[d] /\ runs'[d] = runs[d]
                                 /\ req'[d] = req[d]
      BY <1>4 DEF Put, GInv, Types, RInv, RequestTypes
    <2> QED BY <1>2, <2>1, <2>2
  <1>5. ASSUME UNCHANGED <<outcome, runs, req>> PROVE OwnScript'
    BY <1>5 DEF OwnScript, HandlerOf
  <1>6. ASSUME NEW c \in Conns,
               \/ Dispatch(c) \/ Redirect(c) \/ NotFound(c) \/ Enter(c) \/ Leave(c)
               \/ WriteHeader(c) \/ Write(c) \/ RenderError(c) \/ Return(c)
               \/ Recover(c) \/ Finish(c)
        PROVE  UNCHANGED <<outcome, runs, req>>
    BY <1>6 DEF Dispatch, Redirect, NotFound, Enter, Leave, WriteHeader, Write,
                RenderError, Return, Recover, Finish, Serving
  <1>7. CASE UNCHANGED vars
    BY <1>5, <1>7 DEF vars
  <1> QED BY <1>1, <1>3, <1>4, <1>5, <1>6, <1>7 DEF Next, EngineStep

\* A connection that is free has no request.
FreeAsksNothing == \A c \in Conns : pc[c] = "idle" => req[c] = Nothing

LEMMA FreeStep ==
  ASSUME GInv, RInv, FreeAsksNothing, [Next]_vars
  PROVE  FreeAsksNothing'
  <1>1. ASSUME NEW c \in Conns, NEW r \in Requests, NEW x \in Contexts, Serve(c, r, x)
        PROVE  FreeAsksNothing'
    BY <1>1 DEF Serve, FreeAsksNothing, GInv, Types
  <1>2. ASSUME NEW c \in Conns, Put(c) PROVE FreeAsksNothing'
    BY <1>2 DEF Put, FreeAsksNothing, GInv, Types
  <1>3. ASSUME NEW c \in Conns, NEW p, p # "idle", pc' = [pc EXCEPT ![c] = p], req' = req
        PROVE  FreeAsksNothing'
    BY <1>3 DEF FreeAsksNothing, GInv, Types
  <1>4. ASSUME NEW c \in Conns,
               \/ Dispatch(c) \/ Redirect(c) \/ NotFound(c) \/ Call(c) \/ Return(c)
               \/ Recover(c) \/ Finish(c)
        PROVE  FreeAsksNothing'
    BY <1>3, <1>4 DEF Dispatch, Redirect, NotFound, Call, Return, Recover, Finish
  <1>5. ASSUME NEW c \in Conns,
               \/ Enter(c) \/ Leave(c) \/ WriteHeader(c) \/ Write(c) \/ RenderError(c)
        PROVE  FreeAsksNothing'
    BY <1>5 DEF Enter, Leave, WriteHeader, Write, RenderError, Serving, FreeAsksNothing
  <1>6. CASE UNCHANGED vars
    BY <1>6 DEF vars, FreeAsksNothing
  <1> QED BY <1>1, <1>2, <1>4, <1>5, <1>6 DEF Next, EngineStep

\* A status line that is out after a step is one that the request allows.
LEMMA AnswerAllowed ==
  ASSUME RInv', OwnScript', NEW c \in Conns, NEW s,
         pc'[c] \in {"call", "put"}, wire'[c] = <<s>>, req' = req
  PROVE  s \in Answers(req[c])
  <1> DEFINE h == Route[req[c]].handler
  <1>1. HandlerOf(c)' = h
    BY DEF HandlerOf
  <1>2. ASSUME h # NoHandler, runs'[c] = 1, wire'[c] = <<StatusOf(outcome'[c])>>
        PROVE  s \in Answers(req[c])
    <2>1. outcome'[c] \in Scripts(h)
      BY <1>1, <1>2 DEF OwnScript
    <2>2. s = StatusOf(outcome'[c])
      BY <1>2
    <2> HIDE DEF h
    <2>3. s \in {StatusOf(t) : t \in Scripts(h)}
      BY <2>1, <2>2
    <2> QED BY <1>2, <2>3 DEF Answers, h
  <1>3. CASE pc'[c] = "call"
    <2>1. Progress(c)'
      BY <1>3 DEF RInv, Stage, Calling
    <2>2. h # NoHandler /\ runs'[c] = 1 /\ wire'[c] = <<StatusOf(outcome'[c])>>
      BY <1>1, <2>1 DEF Progress
    <2> QED BY <1>2, <2>2
  <1>4. CASE pc'[c] = "put"
    <2>1. Answered(c)'
      BY <1>4 DEF RInv, Stage
    <2>2. CASE h # NoHandler
      <3>1. runs'[c] = 1 /\ wire'[c] = <<StatusOf(outcome'[c])>>
        BY <1>1, <2>1, <2>2 DEF Answered
      <3> QED BY <1>2, <2>2, <3>1
    <2>3. CASE h = NoHandler /\ Route[req[c]].tsr
      <3>1. s = RedirectStatus(req[c])
        BY <1>1, <2>1, <2>3 DEF Answered, RedirectStatus
      <3> QED BY <2>3, <3>1 DEF Answers
    <2>4. CASE h = NoHandler /\ ~Route[req[c]].tsr
      <3>1. s = 404
        BY <1>1, <2>1, <2>4 DEF Answered
      <3> QED BY <2>4, <3>1 DEF Answers
    <2> QED BY <2>2, <2>3, <2>4
  <1> QED BY <1>3, <1>4

\* Sending the headers answers the request, or does nothing that its browser
\* could notice if they were sent before.
LEMMA SendingAnswers ==
  ASSUME GInv, RInv', OwnScript', NEW c \in Conns, pc[c] # "idle",
         NEW g \in Fields, g.writer = c, g.written = F(c).written,
         SendHeader(held[c], g), pc'[c] \in {"call", "put"}, req' = req
  PROVE  AbstractExchange!Next \/ UNCHANGED AbstractExchange!vars
  <1>1. CASE g.written
    BY <1>1 DEF SendHeader, AbstractExchange!vars
  <1>2. CASE ~g.written
    <2>1. wire[c] = <<>> /\ wire \in [Conns -> Seq(Statuses)]
      BY <1>2 DEF GInv, Types, LineInv, F
    <2>2. wire' = [wire EXCEPT ![c] = <<g.status>>]
      BY <1>2, <2>1 DEF SendHeader
    <2>3. req[c] \in Requests /\ req[c] # Nothing
      BY EngineConstants DEF GInv, Holding
    <2>4. g.status \in Answers(req[c])
      BY <2>1, <2>2, AnswerAllowed
    <2>5. AbstractExchange!Answer(c)
      BY <2>1, <2>2, <2>3, <2>4 DEF AbstractExchange!Answer
    <2> QED BY <2>5 DEF AbstractExchange!Next
  <1> QED BY <1>1, <1>2

\* Every step of the engine is a step of the exchange or one that no browser
\* can notice.
LEMMA ExchangeStep ==
  ASSUME GInv, RInv, FreeAsksNothing, RInv', OwnScript', [Next]_vars
  PROVE  AbstractExchange!Next \/ UNCHANGED AbstractExchange!vars
  <1>1. ASSUME NEW c \in Conns, NEW r \in Requests, NEW x \in Contexts, Serve(c, r, x)
        PROVE  AbstractExchange!Next
    <2>1. req[c] = Nothing
      BY <1>1 DEF Serve, FreeAsksNothing
    <2>2. AbstractExchange!Ask(c, r)
      BY <1>1, <2>1 DEF Serve, AbstractExchange!Ask
    <2> QED BY <2>2 DEF AbstractExchange!Next
  <1>2. ASSUME NEW c \in Conns, Put(c) PROVE AbstractExchange!Next
    <2>1. wire[c] # <<>>
      BY <1>2 DEF Put, GInv, LineInv
    <2>2. AbstractExchange!Release(c)
      BY <1>2, <2>1 DEF Put, AbstractExchange!Release
    <2> QED BY <2>2 DEF AbstractExchange!Next
  <1>3. ASSUME NEW c \in Conns, Redirect(c) \/ Write(c) \/ Finish(c)
        PROVE  AbstractExchange!Next \/ UNCHANGED AbstractExchange!vars
    <2>1. pc[c] # "idle" /\ req' = req
      BY <1>3 DEF Redirect, Write, Finish, Making, LoopOver, Serving
    <2>2. pc'[c] \in {"call", "put"}
      BY <1>3 DEF Redirect, Write, Finish, Making, Serving, GInv, Types
    <2>3. F(c) \in Fields /\ F(c).writer = c
      BY <2>1, Kept
    <2>4. PICK g \in Fields : /\ g.writer = c /\ g.written = F(c).written
                              /\ SendHeader(held[c], g)
      <3>1. CASE Redirect(c)
        <4> DEFINE g == [F(c) EXCEPT !.status = RedirectStatus(req[c])]
        <4>1. g \in Fields /\ g.writer = c /\ g.written = F(c).written
          BY <2>3 DEF Fields, RedirectStatus, Statuses
        <4> QED BY <3>1, <4>1 DEF Redirect, F
      <3>2. CASE Write(c) \/ Finish(c)
        BY <2>3, <3>2 DEF Write, Finish, F
      <3> QED BY <1>3, <3>1, <3>2
    <2> QED BY <2>1, <2>2, <2>4, SendingAnswers
  <1>4. ASSUME NEW c \in Conns,
               \/ Dispatch(c) \/ NotFound(c) \/ Enter(c) \/ Call(c) \/ Leave(c)
               \/ WriteHeader(c) \/ RenderError(c) \/ Return(c) \/ Recover(c)
        PROVE  UNCHANGED AbstractExchange!vars
    BY <1>4 DEF Dispatch, NotFound, Enter, Call, Leave, WriteHeader, RenderError, Return,
                Recover, Set, Step, Serving, AbstractExchange!vars
  <1>5. CASE UNCHANGED vars
    BY <1>5 DEF vars, AbstractExchange!vars
  <1> QED BY <1>1, <1>2, <1>3, <1>4, <1>5 DEF Next, EngineStep

\* ImplementsExchange: for any number of connections, pooled Contexts and
\* requests, the engine answers each request once, with a status of its own
\* route and handler, and frees a connection only after that.
THEOREM GinImplementsExchange == Spec => ImplementsExchange
  <1> DEFINE Inv == GInv /\ RInv /\ OwnScript /\ FreeAsksNothing
  <1>1. Init => AbstractExchange!Init
    BY DEF Init, AbstractExchange!Init
  <1>2. Init => Inv
    <2>1. Init => FreeAsksNothing
      BY DEF Init, FreeAsksNothing
    <2> QED BY <2>1, GinInit, RequestInit, OwnScriptInit
  <1>3. Inv /\ [Next]_vars => Inv'
    BY GinStep, RequestStep, OwnScriptStep, FreeStep
  <1>4. Inv /\ Inv' /\ [Next]_vars => [AbstractExchange!Next]_(AbstractExchange!vars)
    <2> SUFFICES ASSUME Inv, Inv', [Next]_vars
                 PROVE  AbstractExchange!Next \/ UNCHANGED AbstractExchange!vars
      OBVIOUS
    <2> QED BY ExchangeStep
  <1> HIDE DEF Inv
  <1> QED BY <1>1, <1>2, <1>3, <1>4, PTL DEF Spec, ImplementsExchange, AbstractExchange!Spec

=============================================================================
