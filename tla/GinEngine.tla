----------------------------- MODULE GinEngine ------------------------------
(***************************************************************************)
(* How the web server runs its handlers: the request path of the vendored  *)
(* gin framework (gin.go, context.go, response_writer.go, recovery.go,     *)
(* logger.go) with the handlers that setupHandlers installs.  Each request *)
(* is served by a goroutine of net/http that takes a Context from a pool   *)
(* shared by all requests, resets it, and runs a chain of handlers that    *)
(* call each other through Context.Next and share one index.               *)
(*                                                                         *)
(* What a handler does to its ResponseWriter is a script: the calls it     *)
(* makes, in order.  Which handler a path has is module RouteTree.         *)
(***************************************************************************)
EXTENDS Integers, Sequences

CONSTANTS
  Conns,     \* the connections, each serving one request at a time
  Contexts,  \* bound: the Contexts that the pool may allocate
  Requests,  \* the requests that browsers send
  Route,     \* what the routing tree of the request's method says of its path
  Method     \* the method of a request

Handlers == {"static", "index", "api"}
NoHandler == "none"

Nobody == "nobody"
Nothing == "nothing"

ASSUME EngineConstants ==
  /\ Nobody \notin Conns \cup Contexts
  /\ Nothing \notin Requests
  /\ Route \in [Requests -> [handler : Handlers \cup {NoHandler}, tsr : BOOLEAN]]
  /\ Method \in [Requests -> {"GET", "HEAD", "POST"}]

AbortIndex == 63
Statuses == {200, 301, 304, 307, 404, 500}

-----------------------------------------------------------------------------
(* What handlers do *)

Header(code) == [op |-> "header", code |-> code]
Body == [op |-> "write", code |-> 0]
Fail == [op |-> "fail", code |-> 500]    \* renderError
Panic == [op |-> "panic", code |-> 500]

\* indexHandler in debug mode: template.Must panics if the template is gone,
\* and rendering may fail before or after it has written something.
IndexScripts ==
  {<<Panic>>, <<Header(200), Body>>, <<Header(200), Fail>>,
   <<Header(200), Body, Fail>>}

\* createStaticHandler sets 404 first, which net/http's file server (external)
\* overrides for a file (200; no body for HEAD), an unmodified one (304), a
\* directory without a slash (301) and a missing file; a directory listing is
\* written as it is.
StaticScripts ==
  {<<Header(404), Header(200), Body>>, <<Header(404), Header(200)>>,
   <<Header(404), Header(304)>>,
   <<Header(404), Header(301)>>, <<Header(404), Header(404), Body>>,
   <<Header(404), Body>>}

\* apiHandler writes a body or returns without writing.
ApiScripts == {<<Body>>, <<>>}

Scripts(h) ==
  CASE h = "index" -> IndexScripts
    [] h = "static" -> StaticScripts
    [] h = "api" -> ApiScripts
    [] OTHER -> {<<>>}

\* what outcome can be
AllScripts == IndexScripts \cup StaticScripts \cup ApiScripts

VARIABLES
  pc,       \* where ServeHTTP stands for each connection
  req,      \* the request of each connection
  held,     \* the Context it uses
  frames,   \* the middlewares whose Next is on its stack, outermost first
  outcome,  \* the script that its main handler follows
  done,     \* how many calls of the script it has made
  runs,     \* how often the main handler was called for the request
  wire,     \* the status lines sent to the browser for the request
  log,      \* the statuses that Logger has logged for the request
  pool,     \* the Contexts in engine.pool
  ctx       \* the fields of each Context

vars == <<pc, req, held, frames, outcome, done, runs, wire, log, pool, ctx>>
Serving == <<pc, req, held, pool>>

Middleware == <<"Recovery", "Logger">>
Chains == {<<>>, Middleware} \cup {Append(Middleware, h) : h \in Handlers}

ContextFields ==
  [writer : Conns \cup {Nobody},          \* the ResponseWriter underneath
   index : -1 .. AbortIndex + 3,          \* the handler being run, from 0
   chain : Chains,                        \* handlers
   status : Statuses,                     \* the status to send
   written : BOOLEAN]                     \* Written()

NewContext ==
  [writer |-> Nobody, index |-> -1, chain |-> <<>>, status |-> 200, written |-> FALSE]

TypeOK ==
  /\ pc \in [Conns -> {"idle", "route", "next", "call", "put"}]
  /\ req \in [Conns -> Requests \cup {Nothing}]
  /\ held \in [Conns -> Contexts \cup {Nobody}]
  /\ frames \in [Conns -> {<<>>, <<"Recovery">>, Middleware}]
  /\ outcome \in [Conns -> AllScripts]
  /\ done \in [Conns -> 0 .. 3]
  /\ runs \in [Conns -> Nat]
  /\ wire \in [Conns -> Seq(Statuses)]
  /\ log \in [Conns -> Seq(Statuses)]
  /\ pool \subseteq Contexts
  /\ ctx \in [Contexts -> ContextFields]

\* The pool allocates a Context when it has none: all those of Contexts that
\* were never used are in it from the start.
Init ==
  /\ pc = [c \in Conns |-> "idle"]
  /\ req = [c \in Conns |-> Nothing]
  /\ held = [c \in Conns |-> Nobody]
  /\ frames = [c \in Conns |-> <<>>]
  /\ outcome = [c \in Conns |-> <<>>]
  /\ done = [c \in Conns |-> 0]
  /\ runs = [c \in Conns |-> 0]
  /\ wire = [c \in Conns |-> <<>>]
  /\ log = [c \in Conns |-> <<>>]
  /\ pool = Contexts
  /\ ctx = [x \in Contexts |-> NewContext]

-----------------------------------------------------------------------------
(* responseWriter and Context *)

\* Faulty variant: a recycled Context keeps its status.
Reset_KeepsStatus(x, c) == [NewContext EXCEPT !.writer = c, !.status = ctx[x].status]

\* writermem.reset(w) and Context.reset()
Reset(x, c) == [NewContext EXCEPT !.writer = c]

\* WriteHeaderNow: the status line goes to the writer underneath, once.
SendHeader(x, f) ==
  /\ ctx' = [ctx EXCEPT ![x] = [f EXCEPT !.written = TRUE]]
  /\ wire' = IF f.written THEN wire
             ELSE [wire EXCEPT ![f.writer] = Append(@, f.status)]

Set(x, f) == ctx' = [ctx EXCEPT ![x] = f] /\ UNCHANGED wire

-----------------------------------------------------------------------------
(* ServeHTTP and handleHTTPRequest *)

\* A request arrives, and its goroutine takes a Context from the pool.
Serve(c, r, x) ==
  /\ pc[c] = "idle"
  /\ x \in pool
  /\ pool' = pool \ {x}
  /\ ctx' = [ctx EXCEPT ![x] = Reset(x, c)]
  /\ held' = [held EXCEPT ![c] = x]
  /\ req' = [req EXCEPT ![c] = r]
  /\ pc' = [pc EXCEPT ![c] = "route"]
  /\ UNCHANGED <<frames, outcome, done, runs, wire, log>>

\* The path has a handler: the chain of middlewares and handler is started.
Dispatch(c) ==
  LET x == held[c]
      h == Route[req[c]].handler
  IN  /\ pc[c] = "route"
      /\ h # NoHandler
      /\ pc' = [pc EXCEPT ![c] = "next"]
      /\ Set(x, [ctx[x] EXCEPT !.chain = Append(Middleware, h), !.index = 0])
      /\ UNCHANGED <<req, held, frames, outcome, done, runs, log, pool>>

\* Faulty variant: a temporary redirect.
RedirectStatus_Other(r) == 302

RedirectStatus(r) == IF Method[r] = "GET" THEN 301 ELSE 307

\* redirectTrailingSlash: no chain runs, the redirect is sent at once.
Redirect(c) ==
  LET x == held[c]
  IN  /\ pc[c] = "route"
      /\ Route[req[c]].handler = NoHandler
      /\ Route[req[c]].tsr
      /\ pc' = [pc EXCEPT ![c] = "put"]
      /\ SendHeader(x, [ctx[x] EXCEPT !.status = RedirectStatus(req[c])])
      /\ UNCHANGED <<req, held, frames, outcome, done, runs, log, pool>>

\* serveError(404): the chain has the middlewares only.
NotFound(c) ==
  LET x == held[c]
  IN  /\ pc[c] = "route"
      /\ Route[req[c]] = [handler |-> NoHandler, tsr |-> FALSE]
      /\ pc' = [pc EXCEPT ![c] = "next"]
      /\ Set(x, [ctx[x] EXCEPT !.status = 404, !.chain = Middleware, !.index = 0])
      /\ UNCHANGED <<req, held, frames, outcome, done, runs, log, pool>>

-----------------------------------------------------------------------------
(* Context.Next: the loop of every frame on the stack runs on one index. *)

InLoop(c) == pc[c] = "next" /\ ctx[held[c]].index < Len(ctx[held[c]].chain)
LoopOver(c) == pc[c] = "next" /\ ctx[held[c]].index >= Len(ctx[held[c]].chain)

\* The handler at the index
Current(c) == ctx[held[c]].chain[ctx[held[c]].index + 1]

\* The index moves on, in the loop that called the handler that is done.
Step(x, f) == Set(x, [f EXCEPT !.index = @ + 1])

\* A middleware is called, and calls Next in turn.
Enter(c) ==
  /\ InLoop(c)
  /\ Current(c) \in {"Recovery", "Logger"}
  /\ frames' = [frames EXCEPT ![c] = Append(@, Current(c))]
  /\ Step(held[c], ctx[held[c]])
  /\ UNCHANGED <<Serving, outcome, done, runs, log>>

\* The main handler is called.
Call(c) ==
  /\ InLoop(c)
  /\ Current(c) \in Handlers
  /\ \E s \in Scripts(Current(c)) : outcome' = [outcome EXCEPT ![c] = s]
  /\ done' = [done EXCEPT ![c] = 0]
  /\ runs' = [runs EXCEPT ![c] = @ + 1]
  /\ pc' = [pc EXCEPT ![c] = "call"]
  /\ UNCHANGED <<req, held, frames, wire, log, pool, ctx>>

\* The next call that the main handler makes
NextOp(c) == outcome[c][done[c] + 1]
Making(c, op) ==
  /\ pc[c] = "call"
  /\ done[c] < Len(outcome[c])
  /\ NextOp(c).op = op
  /\ done' = [done EXCEPT ![c] = @ + 1]

\* WriteHeader only notes the status, even if the headers are sent already.
WriteHeader(c) ==
  /\ Making(c, "header")
  /\ Set(held[c], [ctx[held[c]] EXCEPT !.status = NextOp(c).code])
  /\ UNCHANGED <<Serving, frames, outcome, runs, log>>

\* Faulty variant: every Write sends the headers.
Write_Always(c) ==
  LET f == ctx[held[c]]
  IN  /\ Making(c, "write")
      /\ ctx' = ctx
      /\ wire' = [wire EXCEPT ![f.writer] = Append(@, f.status)]
      /\ UNCHANGED <<Serving, frames, outcome, runs, log>>

Write(c) ==
  /\ Making(c, "write")
  /\ SendHeader(held[c], ctx[held[c]])
  /\ UNCHANGED <<Serving, frames, outcome, runs, log>>

\* Faulty variant: rendering is tried again until it succeeds.
RenderError_Retries(c) ==
  /\ pc[c] = "call"
  /\ done[c] < Len(outcome[c])
  /\ NextOp(c).op = "fail"
  /\ done' = [done EXCEPT ![c] = 0]
  /\ UNCHANGED <<Serving, frames, outcome, runs, wire, log, ctx>>

\* renderError: AbortWithError(500)
RenderError(c) ==
  /\ Making(c, "fail")
  /\ Set(held[c], [ctx[held[c]] EXCEPT !.status = 500, !.index = AbortIndex])
  /\ UNCHANGED <<Serving, frames, outcome, runs, log>>

\* Faulty variant: the loop does not move on.
Return_SameIndex(c) ==
  /\ pc[c] = "call"
  /\ done[c] = Len(outcome[c])
  /\ pc' = [pc EXCEPT ![c] = "next"]
  /\ UNCHANGED <<req, held, frames, outcome, done, runs, wire, log, pool, ctx>>

\* The main handler returns to the loop of Logger's Next.
Return(c) ==
  /\ pc[c] = "call"
  /\ done[c] = Len(outcome[c])
  /\ pc' = [pc EXCEPT ![c] = "next"]
  /\ Step(held[c], ctx[held[c]])
  /\ UNCHANGED <<req, held, frames, outcome, done, runs, log, pool>>

\* A panic unwinds the stack, Logger's frame too, up to Recovery's, which
\* does AbortWithStatus(500) and returns to the outermost loop.
Recover(c) ==
  /\ Making(c, "panic")
  /\ pc' = [pc EXCEPT ![c] = "next"]
  /\ frames' = [frames EXCEPT ![c] = <<>>]
  /\ Step(held[c], [ctx[held[c]] EXCEPT !.status = 500, !.index = AbortIndex])
  /\ UNCHANGED <<req, held, outcome, runs, log, pool>>

\* Faulty variant: Recovery logs as well.
Leave_LogsTwice(c) ==
  /\ LoopOver(c)
  /\ frames[c] # <<>>
  /\ frames' = [frames EXCEPT ![c] = SubSeq(@, 1, Len(@) - 1)]
  /\ log' = [log EXCEPT ![c] = Append(@, ctx[held[c]].status)]
  /\ Step(held[c], ctx[held[c]])
  /\ UNCHANGED <<Serving, outcome, done, runs>>

\* The loop of a middleware is over: Next returns, Logger logs the status,
\* and the middleware returns to the loop that called it.
Leave(c) ==
  LET top == frames[c][Len(frames[c])]
  IN  /\ LoopOver(c)
      /\ frames[c] # <<>>
      /\ frames' = [frames EXCEPT ![c] = SubSeq(@, 1, Len(@) - 1)]
      /\ log' = IF top = "Logger"
                  THEN [log EXCEPT ![c] = Append(@, ctx[held[c]].status)] ELSE log
      /\ Step(held[c], ctx[held[c]])
      /\ UNCHANGED <<Serving, outcome, done, runs>>

\* Faulty variant: the Context is put back before the request is over.
Finish_PutsEarly(c) ==
  /\ LoopOver(c)
  /\ frames[c] = <<>>
  /\ pc' = [pc EXCEPT ![c] = "put"]
  /\ pool' = pool \cup {held[c]}
  /\ SendHeader(held[c], ctx[held[c]])
  /\ UNCHANGED <<req, held, frames, outcome, done, runs, log>>

\* The outermost loop is over: handleHTTPRequest sends what was not sent, the
\* default 404 body included.
Finish(c) ==
  /\ LoopOver(c)
  /\ frames[c] = <<>>
  /\ pc' = [pc EXCEPT ![c] = "put"]
  /\ SendHeader(held[c], ctx[held[c]])
  /\ UNCHANGED <<req, held, frames, outcome, done, runs, log, pool>>

\* engine.pool.Put(c): the Context goes back with the fields it has, and the
\* connection is free for its next request.
Put(c) ==
  /\ pc[c] = "put"
  /\ pc' = [pc EXCEPT ![c] = "idle"]
  /\ pool' = pool \cup {held[c]}
  /\ held' = [held EXCEPT ![c] = Nobody]
  /\ req' = [req EXCEPT ![c] = Nothing]
  /\ outcome' = [outcome EXCEPT ![c] = <<>>]
  /\ done' = [done EXCEPT ![c] = 0]
  /\ runs' = [runs EXCEPT ![c] = 0]
  /\ wire' = [wire EXCEPT ![c] = <<>>]
  /\ log' = [log EXCEPT ![c] = <<>>]
  /\ UNCHANGED <<frames, ctx>>

EngineStep(c) ==
  \/ Dispatch(c) \/ Redirect(c) \/ NotFound(c)
  \/ Enter(c) \/ Call(c) \/ Leave(c)
  \/ WriteHeader(c) \/ Write(c) \/ RenderError(c) \/ Return(c) \/ Recover(c)
  \/ Finish(c) \/ Put(c)

Next ==
  \E c \in Conns :
    \/ \E r \in Requests, x \in Contexts : Serve(c, r, x)
    \/ EngineStep(c)

Spec == Init /\ [][Next]_vars

\* A goroutine that serves a request is scheduled, and its handler returns
\* (for apiHandler see ApiProxy!EveryRequestFinishes).
FairSpec == Spec /\ \A c \in Conns : WF_vars(EngineStep(c))

-----------------------------------------------------------------------------
(* Properties *)

Sent(c) == pc[c] = "put"

\* The pool never hands a Context to two requests at a time: a Context in use
\* is in nobody else's hands and not in the pool, and writes to its own
\* request's browser.
ContextExclusive ==
  \A c \in Conns : held[c] # Nobody =>
    /\ held[c] \notin pool
    /\ ctx[held[c]].writer = c
    /\ \A d \in Conns \ {c} : held[d] # held[c]

\* The status line is sent exactly once for every request, whichever of the
\* handler, Recovery and handleHTTPRequest gets to it first.
HeadersSentOnce ==
  \A c \in Conns : Len(wire[c]) <= 1 /\ (Sent(c) => Len(wire[c]) = 1)

\* The last status that a script sets before its first write; 200 if none.
StatusOf(s) ==
  LET upTo == {i \in 0 .. Len(s) : \A j \in 1 .. i : s[j].op # "write"}
      codes == {i \in upTo \ {0} : s[i].op # "write"}
  IN  IF codes = {} THEN 200
      ELSE s[CHOOSE i \in codes : \A j \in codes : j <= i].code

\* The status that a request is answered with is the one its own route and
\* its own handler ask for, whatever requests its Context served before and
\* however the handler ended: a redirect, 404 without a route, 500 after a
\* panic, what the handler set before it wrote, and 200 for apiHandler always.
StatusIsTheRequests ==
  \A c \in Conns : Sent(c) => wire[c][1] =
    LET r == Route[req[c]]
    IN  CASE r.handler # NoHandler -> StatusOf(outcome[c])
          [] r.handler = NoHandler /\ r.tsr -> RedirectStatus(req[c])
          [] r.handler = NoHandler /\ ~r.tsr -> 404

\* The main handler is called exactly once for a request with a route, and
\* not at all otherwise, although three loops share one index.
HandlerRunsOnce ==
  \A c \in Conns : Sent(c) =>
    runs[c] = IF Route[req[c]].handler = NoHandler THEN 0 ELSE 1

\* A request is logged once, with the status that was sent, except that
\* nothing is logged of a redirect (no chain runs) or of a panic (Recovery is
\* outside of Logger), and 500 is logged when rendering fails although 200 is
\* on its way.
LogIsTrue ==
  \A c \in Conns : Sent(c) =>
    \/ log[c] = wire[c]
    \/ log[c] = <<>> /\ IF runs[c] = 0 THEN Route[req[c]].tsr ELSE outcome[c] = <<Panic>>
    \/ log[c] = <<500>> /\ outcome[c] = <<Header(200), Body, Fail>>

-----------------------------------------------------------------------------
(* What browsers see *)

\* The statuses that a request may be answered with: those of its handler's
\* scripts, that of its redirect, or 404.
Answers(r) ==
  LET h == Route[r].handler
  IN  IF h # NoHandler THEN {StatusOf(s) : s \in Scripts(h)}
      ELSE {IF Route[r].tsr THEN RedirectStatus(r) ELSE 404}

AbstractExchange == INSTANCE Exchange WITH
  NoRequest <- Nothing,
  Allowed <- [r \in Requests |-> Answers(r)],
  asked <- req,
  answer <- wire

\* The engine implements the exchange: however requests share pooled Contexts
\* and handlers fail, every step that a browser can notice asks, answers or
\* frees one connection, and each request gets one status line, its own.
ImplementsExchange == AbstractExchange!Spec

\* Every request is answered and its Context returned to the pool, also after
\* a panic.
ContextComesBack == \A c \in Conns : pc[c] = "route" ~> held[c] = Nobody

=============================================================================
