-------------------------- MODULE GinEngineProofs ---------------------------
(***************************************************************************)
(* Two facts about the engine for any number of connections, Contexts and  *)
(* requests: a Context serves one request at a time, and every request is  *)
(* sent its status line once.  The second needs the first: that a Context  *)
(* has noted that it wrote says something of the browser only while no     *)
(* other request writes through it (LineInv).                              *)
(***************************************************************************)
EXTENDS GinEngine, TLAPS

Pcs == {"idle", "route", "next", "call", "put"}

\* The types that the proofs need: the index may be any integer.
Fields ==
  [writer : Conns \cup {Nobody}, index : Int, chain : Chains,
   status : Statuses, written : BOOLEAN]

Types ==
  /\ pc \in [Conns -> Pcs]
  /\ req \in [Conns -> Requests \cup {Nothing}]
  /\ held \in [Conns -> Contexts \cup {Nobody}]
  /\ outcome \in [Conns -> AllScripts]
  /\ done \in [Conns -> Nat]
  /\ wire \in [Conns -> Seq(Statuses)]
  /\ pool \subseteq Contexts
  /\ ctx \in [Contexts -> Fields]

\* A request that is served has a Context, and a route is found for it.
Holding ==
  \A c \in Conns :
    /\ pc[c] = "idle" <=> held[c] = Nobody
    /\ pc[c] # "idle" => req[c] \in Requests

\* A Context has noted whether its request's status line was sent.
LineInv ==
  \A c \in Conns :
    /\ pc[c] = "idle" => Len(wire[c]) = 0
    /\ pc[c] # "idle" => Len(wire[c]) = IF ctx[held[c]].written THEN 1 ELSE 0
    /\ pc[c] = "put" => ctx[held[c]].written

GInv == Types /\ Holding /\ ContextExclusive /\ LineInv

\* Handlers set statuses that Statuses has.
LEMMA ScriptCodes ==
  ASSUME NEW s \in AllScripts, NEW i \in 1 .. Len(s), s[i].op = "header"
  PROVE  s[i].code \in Statuses
BY DEF AllScripts, IndexScripts, StaticScripts, ApiScripts, Header, Body, Fail,
       Panic, Statuses

\* The initial state satisfies the invariant.
LEMMA GinInit == Init => GInv
BY EngineConstants
DEF Init, GInv, Types, Holding, ContextExclusive, LineInv, Pcs, Fields, NewContext,
    Chains, Statuses, AllScripts, ApiScripts

\* Where a request that has a Context goes next
LEMMA PcNames ==
  /\ "next" \in Pcs \ {"idle"} /\ "call" \in Pcs \ {"idle"} /\ "put" \in Pcs \ {"idle"}
  /\ "next" # "put" /\ "call" # "put"
BY DEF Pcs

\* A step of one request that changes the fields of its own Context f, and
\* perhaps sends the status line, disturbs no other request.
LEMMA LocalStep ==
  ASSUME GInv, NEW c \in Conns, pc[c] # "idle",
         NEW p \in Pcs \ {"idle"}, pc' = [pc EXCEPT ![c] = p],
         NEW f \in Fields, f.writer = c, f.written = ctx[held[c]].written,
         \/ Set(held[c], f) /\ p # "put"
         \/ SendHeader(held[c], f),
         outcome' \in [Conns -> AllScripts], done' \in [Conns -> Nat],
         UNCHANGED <<req, held, pool>>
  PROVE  GInv'
<1> USE DEF GInv, Types
<1>1. held[c] \in Contexts /\ ctx[held[c]].writer = c
  BY DEF Holding, ContextExclusive
<1>2. PICK b \in BOOLEAN :
        /\ ctx' = [ctx EXCEPT ![held[c]] = [f EXCEPT !.written = b]]
        /\ f.written => b
        /\ wire' = IF b = f.written THEN wire
                   ELSE [wire EXCEPT ![c] = Append(@, f.status)]
        /\ p = "put" => b
  <2>1. f.written \in BOOLEAN /\ f = [f EXCEPT !.written = f.written]
    BY DEF Fields
  <2>2. CASE Set(held[c], f) /\ p # "put"
    <3> USE <2>1
    <3> WITNESS f.written \in BOOLEAN
    <3> QED
      BY <2>1, <2>2 DEF Set
  <2>3. CASE SendHeader(held[c], f)
    <3> WITNESS TRUE \in BOOLEAN
    <3>1. CASE f.written
      BY <2>1, <2>3, <3>1 DEF SendHeader
    <3>2. CASE ~ f.written
      BY <2>1, <2>3, <3>2 DEF SendHeader
    <3> QED
      BY <3>1, <3>2
  <2> QED
    BY <2>2, <2>3
<1>3. [f EXCEPT !.written = b] \in Fields
  BY DEF Fields
<1>4. /\ pc' \in [Conns -> Pcs]
      /\ wire' \in [Conns -> Seq(Statuses)]
      /\ ctx' \in [Contexts -> Fields]
  BY <1>1, <1>2, <1>3 DEF Fields
<1>5. Holding'
  BY DEF Holding
<1>6. ContextExclusive'
  <2>1. [f EXCEPT !.written = b].writer = c
    BY DEF Fields
  <2> QED
    BY <1>1, <1>2, <1>3, <2>1 DEF ContextExclusive
<1>7. LineInv'
  <2> SUFFICES ASSUME NEW d \in Conns
               PROVE  /\ pc'[d] = "idle" => Len(wire'[d]) = 0
                      /\ pc'[d] # "idle" =>
                           Len(wire'[d]) = IF ctx'[held'[d]].written THEN 1 ELSE 0
                      /\ pc'[d] = "put" => ctx'[held'[d]].written
    BY DEF LineInv
  <2>1. CASE d = c
    <3>1. ctx'[held[c]].written = b
      BY <1>1, <1>2 DEF Fields
    <3>2. Len(wire[c]) = IF f.written THEN 1 ELSE 0
      BY DEF LineInv
    <3>3. Len(wire'[c]) = IF b THEN 1 ELSE 0
      <4>1. CASE b = f.written
        BY <1>2, <3>2, <4>1
      <4>2. CASE b # f.written
        <5>1. ~ f.written /\ b
          BY <1>2, <4>2 DEF Fields
        <5>2. wire'[c] = Append(wire[c], f.status) /\ f.status \in Statuses
          BY <1>2, <4>2 DEF Fields
        <5>3. wire[c] \in Seq(Statuses) /\ Len(wire[c]) = 0
          BY <3>2, <5>1
        <5> QED
          BY <5>1, <5>2, <5>3
      <4> QED
        BY <4>1, <4>2
    <3> QED
      BY <1>2, <2>1, <3>1, <3>3
  <2>2. CASE d # c
    <3>1. pc'[d] = pc[d] /\ wire'[d] = wire[d]
      BY <1>2, <2>2
    <3>2. pc[d] # "idle" => held[d] # held[c] /\ held[d] \in Contexts
      BY <2>2 DEF Holding, ContextExclusive
    <3>3. pc[d] # "idle" => ctx'[held[d]] = ctx[held[d]]
      BY <1>2, <3>2
    <3> QED
      BY <3>1, <3>3 DEF LineInv
  <2> QED
    BY <2>1, <2>2
<1> QED
  BY <1>4, <1>5, <1>6, <1>7

\* The fields of the Context that a request uses, and its next call
LEMMA Using ==
  ASSUME GInv, NEW c \in Conns, pc[c] # "idle"
  PROVE  /\ held[c] \in Contexts
         /\ req[c] \in Requests
         /\ ctx[held[c]] \in Fields
         /\ ctx[held[c]].writer = c
BY DEF GInv, Types, Holding, ContextExclusive

\* A request takes a Context of the pool: one that nobody holds.
LEMMA ServeStep ==
  ASSUME GInv, NEW c \in Conns, NEW r \in Requests, NEW x \in Contexts, Serve(c, r, x)
  PROVE  GInv'
<1> USE DEF GInv
<1>1. Reset(x, c) \in Fields /\ Reset(x, c).writer = c /\ Reset(x, c).written = FALSE
  <2>1. <<>> \in Chains /\ 200 \in Statuses
    BY DEF Chains, Statuses
  <2>2. NewContext \in Fields /\ NewContext.written = FALSE
    BY <2>1 DEF NewContext, Fields
  <2> QED
    BY <2>2 DEF Reset, Fields
<1>2. \A d \in Conns : held[d] # x
  BY EngineConstants DEF ContextExclusive, Serve
<1>3. Types'
  BY <1>1 DEF Types, Serve, Pcs
<1>4. Holding'
  BY EngineConstants DEF Holding, Serve, Types
<1>5. ContextExclusive'
  <2> SUFFICES ASSUME NEW d \in Conns, held'[d] # Nobody
               PROVE  /\ held'[d] \notin pool'
                      /\ ctx'[held'[d]].writer = d
                      /\ \A e \in Conns \ {d} : held'[e] # held'[d]
    BY DEF ContextExclusive
  <2>1. CASE d = c
    BY <1>1, <1>2, <2>1 DEF Serve, Types
  <2>2. CASE d # c
    <3>1. held'[d] = held[d] /\ held[d] # x /\ held[d] \in Contexts
      BY <1>2, <2>2 DEF Serve, Types
    <3>2. ctx'[held[d]] = ctx[held[d]]
      BY <3>1 DEF Serve, Types
    <3> QED
      BY <3>1, <3>2 DEF ContextExclusive, Serve, Types
  <2> QED
    BY <2>1, <2>2
<1>6. LineInv'
  BY <1>1, <1>2, EngineConstants DEF LineInv, Holding, Serve, Types
<1> QED
  BY <1>3, <1>4, <1>5, <1>6

\* A request gives back its Context, which nobody else holds.
LEMMA PutStep ==
  ASSUME GInv, NEW c \in Conns, Put(c)
  PROVE  GInv'
<1> USE DEF GInv
<1>1. held[c] \in Contexts
  BY Using DEF Put
<1>2. <<>> \in AllScripts
  BY DEF AllScripts, ApiScripts
<1>3. Types'
  BY <1>1, <1>2 DEF Types, Put, Pcs
<1>4. Holding'
  BY DEF Holding, Put, Types
<1>5. ContextExclusive'
  BY <1>1 DEF ContextExclusive, Put, Types
<1>6. LineInv'
  BY <1>1 DEF LineInv, Put, Types
<1> QED
  BY <1>3, <1>4, <1>5, <1>6

-----------------------------------------------------------------------------
(* The steps of a request that has a Context *)

\* handleHTTPRequest with and without a route
LEMMA RouteSteps ==
  ASSUME GInv, NEW c \in Conns, Dispatch(c) \/ Redirect(c) \/ NotFound(c)
  PROVE  GInv'
<1> DEFINE f == ctx[held[c]]
<1>1. pc[c] # "idle"
  BY DEF Dispatch, Redirect, NotFound
<1>2. held[c] \in Contexts /\ f \in Fields /\ f.writer = c /\ req[c] \in Requests
  BY <1>1, Using
<1>3. outcome \in [Conns -> AllScripts] /\ done \in [Conns -> Nat]
  BY DEF GInv, Types
<1>4. CASE Dispatch(c)
  <2> DEFINE h == Append(Middleware, Route[req[c]].handler)
             f1 == [f EXCEPT !.chain = h]
             g == [f1 EXCEPT !.index = 0]
  <2>1. h \in Chains
    BY <1>2, <1>4, EngineConstants DEF Dispatch, Chains
  <2>2. g \in Fields /\ g.writer = c /\ g.written = f.written
    <3>1. f1 \in Fields /\ f1.writer = f.writer /\ f1.written = f.written
      BY <1>2, <2>1 DEF Fields
    <3> HIDE DEF f1
    <3> QED
      BY <1>2, <3>1 DEF Fields
  <2>3. Set(held[c], g) /\ pc' = [pc EXCEPT ![c] = "next"]
    BY <1>4 DEF Dispatch
  <2>4. UNCHANGED <<req, held, pool, outcome, done>>
    BY <1>4 DEF Dispatch
  <2> HIDE DEF g
  <2> QED
    BY <1>1, <1>3, <2>2, <2>3, <2>4, PcNames, LocalStep
<1>5. CASE Redirect(c)
  <2> DEFINE g == [f EXCEPT !.status = RedirectStatus(req[c])]
  <2>1. g \in Fields /\ g.writer = c /\ g.written = f.written
    BY <1>2 DEF Fields, RedirectStatus, Statuses
  <2>2. SendHeader(held[c], g) /\ pc' = [pc EXCEPT ![c] = "put"]
    BY <1>5 DEF Redirect
  <2>3. UNCHANGED <<req, held, pool, outcome, done>>
    BY <1>5 DEF Redirect
  <2> HIDE DEF g
  <2> QED
    BY <1>1, <1>3, <2>1, <2>2, <2>3, PcNames, LocalStep
<1>6. CASE NotFound(c)
  <2> DEFINE f1 == [f EXCEPT !.status = 404]
             f2 == [f1 EXCEPT !.chain = Middleware]
             g == [f2 EXCEPT !.index = 0]
  <2>1. g \in Fields /\ g.writer = c /\ g.written = f.written
    <3>1. 404 \in Statuses /\ Middleware \in Chains
      BY DEF Statuses, Chains
    <3>2. f1 \in Fields /\ f1.writer = f.writer /\ f1.written = f.written
      BY <1>2, <3>1 DEF Fields
    <3> HIDE DEF f1
    <3>3. f2 \in Fields /\ f2.writer = f.writer /\ f2.written = f.written
      BY <3>1, <3>2 DEF Fields
    <3> HIDE DEF f2
    <3> QED
      BY <1>2, <3>3 DEF Fields
  <2>2. Set(held[c], g) /\ pc' = [pc EXCEPT ![c] = "next"]
    BY <1>6 DEF NotFound
  <2>3. UNCHANGED <<req, held, pool, outcome, done>>
    BY <1>6 DEF NotFound
  <2> HIDE DEF g
  <2> QED
    BY <1>1, <1>3, <2>1, <2>2, <2>3, PcNames, LocalStep
<1> QED
  BY <1>4, <1>5, <1>6

\* The loops of Next and the main handler's start and return
LEMMA LoopSteps ==
  ASSUME GInv, NEW c \in Conns,
         Enter(c) \/ Call(c) \/ Return(c) \/ Leave(c) \/ Finish(c)
  PROVE  GInv'
<1> DEFINE f == ctx[held[c]]
           g == [f EXCEPT !.index = @ + 1]
<1>1. pc[c] # "idle"
  BY DEF Enter, Call, Return, Leave, Finish, InLoop, LoopOver
<1>2. held[c] \in Contexts /\ f \in Fields /\ f.writer = c
  BY <1>1, Using
<1>3. /\ outcome \in [Conns -> AllScripts] /\ done \in [Conns -> Nat]
      /\ pc \in [Conns -> Pcs] /\ ctx \in [Contexts -> Fields]
  BY DEF GInv, Types
<1>4. g \in Fields /\ g.writer = c /\ g.written = f.written
  BY <1>2 DEF Fields
<1>5. CASE Enter(c)
  <2>1. Set(held[c], g) /\ pc' = [pc EXCEPT ![c] = "next"]
    BY <1>3, <1>5 DEF Enter, Step, Serving, InLoop
  <2>2. UNCHANGED <<req, held, pool, outcome, done>>
    BY <1>5 DEF Enter, Serving
  <2> HIDE DEF g
  <2> QED
    BY <1>1, <1>3, <1>4, <2>1, <2>2, PcNames, LocalStep
<1>6. CASE Call(c)
  <2>1. Current(c) \in Handlers
    BY <1>6 DEF Call
  <2>2. Scripts(Current(c)) \subseteq AllScripts
    BY <2>1 DEF Handlers, Scripts, AllScripts
  <2>3. outcome' \in [Conns -> AllScripts] /\ done' \in [Conns -> Nat]
    BY <1>3, <1>6, <2>2 DEF Call
  <2>4. Set(held[c], f) /\ pc' = [pc EXCEPT ![c] = "call"]
    BY <1>2, <1>3, <1>6 DEF Call, Set
  <2>5. UNCHANGED <<req, held, pool>>
    BY <1>6 DEF Call
  <2> HIDE DEF g
  <2> QED
    BY <1>1, <1>2, <2>3, <2>4, <2>5, PcNames, LocalStep
<1>7. CASE Return(c)
  <2>1. Set(held[c], g) /\ pc' = [pc EXCEPT ![c] = "next"]
    BY <1>7 DEF Return, Step
  <2>2. UNCHANGED <<req, held, pool, outcome, done>>
    BY <1>7 DEF Return
  <2> HIDE DEF g
  <2> QED
    BY <1>1, <1>3, <1>4, <2>1, <2>2, PcNames, LocalStep
<1>8. CASE Leave(c)
  <2>1. Set(held[c], g) /\ pc' = [pc EXCEPT ![c] = "next"]
    BY <1>3, <1>8 DEF Leave, Step, Serving, LoopOver
  <2>2. UNCHANGED <<req, held, pool, outcome, done>>
    BY <1>8 DEF Leave, Serving
  <2> HIDE DEF g
  <2> QED
    BY <1>1, <1>3, <1>4, <2>1, <2>2, PcNames, LocalStep
<1>9. CASE Finish(c)
  <2>1. SendHeader(held[c], f) /\ pc' = [pc EXCEPT ![c] = "put"]
    BY <1>9 DEF Finish
  <2>2. UNCHANGED <<req, held, pool, outcome, done>>
    BY <1>9 DEF Finish
  <2> HIDE DEF g
  <2> QED
    BY <1>1, <1>2, <1>3, <2>1, <2>2, PcNames, LocalStep
<1> QED
  BY <1>5, <1>6, <1>7, <1>8, <1>9

\* The calls that the main handler makes
LEMMA HandlerSteps ==
  ASSUME GInv, NEW c \in Conns,
         WriteHeader(c) \/ Write(c) \/ RenderError(c) \/ Recover(c)
  PROVE  GInv'
<1> DEFINE f == ctx[held[c]]
           h == [f EXCEPT !.status = 500]
<1>1. pc[c] = "call" /\ done[c] < Len(outcome[c])
  BY DEF WriteHeader, Write, RenderError, Recover, Making
<1>2. held[c] \in Contexts /\ f \in Fields /\ f.writer = c
  BY <1>1, Using
<1>3. /\ outcome \in [Conns -> AllScripts] /\ done \in [Conns -> Nat]
      /\ pc \in [Conns -> Pcs]
  BY DEF GInv, Types
<1>4. done' \in [Conns -> Nat]
  BY <1>3 DEF WriteHeader, Write, RenderError, Recover, Making
<1>h. h \in Fields /\ h.writer = c /\ h.written = f.written
  BY <1>2 DEF Fields, Statuses
<1> HIDE DEF h
<1>5. CASE WriteHeader(c)
  <2> DEFINE g == [f EXCEPT !.status = NextOp(c).code]
  <2>1. outcome[c] \in AllScripts /\ done[c] + 1 \in 1 .. Len(outcome[c])
    <3>1. Len(outcome[c]) \in Nat
      BY <1>3 DEF AllScripts, IndexScripts, StaticScripts, ApiScripts
    <3> QED
      BY <1>1, <1>3, <3>1
  <2>2. NextOp(c).code \in Statuses
    BY <1>5, <2>1, ScriptCodes DEF WriteHeader, Making, NextOp
  <2>3. g \in Fields /\ g.writer = c /\ g.written = f.written
    BY <1>2, <2>2 DEF Fields
  <2>4. Set(held[c], g) /\ pc' = [pc EXCEPT ![c] = "call"]
    BY <1>1, <1>3, <1>5 DEF WriteHeader, Serving
  <2>5. UNCHANGED <<req, held, pool, outcome>>
    BY <1>5 DEF WriteHeader, Serving
  <2> HIDE DEF g
  <2> QED
    BY <1>1, <1>3, <1>4, <2>3, <2>4, <2>5, PcNames, LocalStep
<1>6. CASE Write(c)
  <2>1. SendHeader(held[c], f) /\ pc' = [pc EXCEPT ![c] = "call"]
    BY <1>1, <1>3, <1>6 DEF Write, Serving
  <2>2. UNCHANGED <<req, held, pool, outcome>>
    BY <1>6 DEF Write, Serving
  <2> QED
    BY <1>1, <1>2, <1>3, <1>4, <2>1, <2>2, PcNames, LocalStep
<1>7. CASE RenderError(c)
  <2> DEFINE g == [h EXCEPT !.index = AbortIndex]
  <2>1. g \in Fields /\ g.writer = c /\ g.written = f.written
    BY <1>h DEF Fields, AbortIndex
  <2>2. Set(held[c], g) /\ pc' = [pc EXCEPT ![c] = "call"]
    BY <1>1, <1>3, <1>7 DEF RenderError, Serving, h
  <2>3. UNCHANGED <<req, held, pool, outcome>>
    BY <1>7 DEF RenderError, Serving
  <2> HIDE DEF g
  <2> QED
    BY <1>1, <1>3, <1>4, <2>1, <2>2, <2>3, PcNames, LocalStep
<1>8. CASE Recover(c)
  <2> DEFINE k == [h EXCEPT !.index = AbortIndex]
             g == [k EXCEPT !.index = @ + 1]
  <2>1. g \in Fields /\ g.writer = c /\ g.written = f.written
    <3>1. k \in Fields /\ k.writer = c /\ k.written = f.written
      BY <1>h DEF Fields, AbortIndex
    <3> HIDE DEF k
    <3> QED
      BY <3>1 DEF Fields
  <2>2. Set(held[c], g) /\ pc' = [pc EXCEPT ![c] = "next"]
    BY <1>8 DEF Recover, Step, h
  <2>3. UNCHANGED <<req, held, pool, outcome>>
    BY <1>8 DEF Recover
  <2> HIDE DEF g
  <2> QED
    BY <1>1, <1>3, <1>4, <2>1, <2>2, <2>3, PcNames, LocalStep
<1> QED
  BY <1>5, <1>6, <1>7, <1>8

-----------------------------------------------------------------------------
\* Every step of the engine keeps the invariant.
LEMMA GinStep == GInv /\ [Next]_vars => GInv'
<1> SUFFICES ASSUME GInv, [Next]_vars
             PROVE  GInv'
  OBVIOUS
<1>1. CASE Next
  <2>1. PICK c \in Conns :
          \/ \E r \in Requests, x \in Contexts : Serve(c, r, x)
          \/ EngineStep(c)
    BY <1>1 DEF Next
  <2> QED
    BY <2>1, ServeStep, PutStep, RouteSteps, LoopSteps, HandlerSteps DEF EngineStep
<1>2. CASE UNCHANGED vars
  BY <1>2 DEF vars, GInv, Types, Holding, ContextExclusive, LineInv
<1> QED
  BY <1>1, <1>2

\* GInv holds in every state: the engine's pool and its writers stay consistent.
THEOREM GinInvariant == Spec => []GInv
BY GinInit, GinStep, PTL DEF Spec

\* ContextExclusive, for every number of connections and Contexts: engine.pool
\* never lends a Context that a request still uses (ServeHTTP).
THEOREM GinContextExclusive == Spec => []ContextExclusive
<1>1. GInv => ContextExclusive
  BY DEF GInv
<1> QED
  BY <1>1, GinInvariant, PTL

\* HeadersSentOnce, for every number of connections and Contexts: the guard of
\* WriteHeaderNow is enough, because the Context is the request's own.
THEOREM GinHeadersSentOnce == Spec => []HeadersSentOnce
<1>1. GInv => HeadersSentOnce
  <2> SUFFICES ASSUME GInv, NEW c \in Conns
               PROVE  Len(wire[c]) <= 1 /\ (Sent(c) => Len(wire[c]) = 1)
    BY DEF HeadersSentOnce
  <2>1. Len(wire[c]) = 0 \/ Len(wire[c]) = 1
    BY DEF GInv, LineInv
  <2>2. Sent(c) => Len(wire[c]) = 1
    BY DEF GInv, LineInv, Sent
  <2>3. Len(wire[c]) <= 1
    <3> DEFINE n == Len(wire[c])
    <3>1. n = 0 \/ n = 1
      BY <2>1
    <3> HIDE DEF n
    <3>2. n <= 1
      BY <3>1
    <3> QED
      BY <3>2 DEF n
  <2> QED
    BY <2>2, <2>3
<1> QED
  BY <1>1, GinInvariant, PTL

=============================================================================
