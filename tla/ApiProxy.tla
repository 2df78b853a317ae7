------------------------------ MODULE ApiProxy ------------------------------
(***************************************************************************)
(* The Kubedash web server (kubedash.go, handlers.go): main resolves the   *)
(* Heapster URL, installs the handlers and serves; each request on /api/*  *)
(* is handled by a goroutine of its own running apiHandler, which relays   *)
(* it to Heapster.  The handlers share the package global heapster_url.    *)
(*                                                                         *)
(* A connection is a slot that carries one request at a time.  Heapster,   *)
(* net/http and gin are external: they are modelled by the outcomes that   *)
(* apiHandler tells apart.                                                 *)
(***************************************************************************)
EXTENDS Naturals

CONSTANTS
  Conns,      \* the browser connections, each carrying one request at a time
  Payloads,   \* what a Heapster response body can be, the empty body apart
  Empty,      \* the empty body
  Headless,   \* the -headless flag
  FlagURL     \* the -heapster_url flag: NoURL (its default) or "flag"

NoURL == "none"
ServiceURL == "service"
Bodies == Payloads \cup {Empty}
OK == 200
ServerError == 500

ASSUME ProxyConstants ==
  /\ Empty \notin Payloads
  /\ Headless \in BOOLEAN
  /\ FlagURL \in {NoURL, "flag"}

VARIABLES
  main,          \* where main() stands
  heapster_url,  \* the package global read by every handler
  pc,            \* where the handler of each connection stands
  upstream,      \* Heapster's response to the request of the connection
  open,          \* is that response's Body not closed yet
  client         \* what the browser has received for its request

vars == <<main, heapster_url, pc, upstream, open, client>>

\* Of a response only the headers are there at first; whole says whether
\* its body will arrive in full.
NoResponse == [status |-> 0, body |-> Empty, whole |-> FALSE]
Responses == [status : {0, OK, ServerError}, body : Bodies, whole : BOOLEAN]
NoReply == [status |-> 0, body |-> Empty]
Replies == [status : {0, OK}, body : Bodies]

TypeOK ==
  /\ main \in {"start", "resolved", "setup", "serving", "exited"}
  /\ heapster_url \in {NoURL, ServiceURL, "flag"}
  /\ pc \in [Conns -> {"idle", "get", "status", "read", "write", "done"}]
  /\ upstream \in [Conns -> Responses]
  /\ open \in [Conns -> BOOLEAN]
  /\ client \in [Conns -> Replies]

Init ==
  /\ main = "start"
  /\ heapster_url = NoURL
  /\ pc = [c \in Conns |-> "idle"]
  /\ upstream = [c \in Conns |-> NoResponse]
  /\ open = [c \in Conns |-> FALSE]
  /\ client = [c \in Conns |-> NoReply]

-----------------------------------------------------------------------------
(* main *)

\* The URL that main chooses from the flags.
ConfiguredURL == IF ~Headless THEN ServiceURL ELSE FlagURL

ResolveURL ==
  /\ main = "start"
  /\ heapster_url' = ConfiguredURL
  /\ main' = "resolved"
  /\ UNCHANGED <<pc, upstream, open, client>>

\* setupHandlers(heapster_url) stores its argument in the global again and
\* installs the routes.
SetupHandlers ==
  /\ main = "resolved"
  /\ heapster_url' = heapster_url
  /\ main' = "setup"
  /\ UNCHANGED <<pc, upstream, open, client>>

\* r.Run(addr) binds the address and serves from then on ...
Run ==
  /\ main = "setup"
  /\ main' = "serving"
  /\ UNCHANGED <<heapster_url, pc, upstream, open, client>>

\* ... or it returns an error, which main drops before os.Exit(0).
RunFails ==
  /\ main = "setup"
  /\ main' = "exited"
  /\ UNCHANGED <<heapster_url, pc, upstream, open, client>>

-----------------------------------------------------------------------------
(* apiHandler *)

Goto(c, from, to) ==
  /\ main = "serving"
  /\ pc[c] = from
  /\ pc' = [pc EXCEPT ![c] = to]

\* Faulty variant: Heapster's status is passed on.
Return_ForwardsStatus(c, reply) ==
  /\ open' = [open EXCEPT ![c] = FALSE]
  /\ client' = [client EXCEPT ![c] = [reply EXCEPT !.status = upstream[c].status]]

\* The handler returns: the deferred Close runs, and gin sends the headers
\* (status 200 unless set) if the handler wrote nothing.
Return(c, reply) ==
  /\ open' = [open EXCEPT ![c] = FALSE]
  /\ client' = [client EXCEPT ![c] = reply]

EmptyReply == [status |-> OK, body |-> Empty]

\* The browser sends a request and gin starts apiHandler in a goroutine.
Accept(c) ==
  /\ Goto(c, "idle", "get")
  /\ upstream' = [upstream EXCEPT ![c] = NoResponse]
  /\ client' = [client EXCEPT ![c] = NoReply]
  /\ UNCHANGED <<main, heapster_url, open>>

\* http.Get returns an error: Heapster is unreachable, or there is no URL.
\* There is no response and so no Body to close: the handler just returns.
GetFails(c) ==
  /\ Goto(c, "get", "done")
  /\ client' = [client EXCEPT ![c] = EmptyReply]
  /\ UNCHANGED <<main, heapster_url, upstream, open>>

\* http.Get returns a response with some status and a body that may break
\* off; from here on the Body is open and its Close deferred.
GetAnswers(c) ==
  /\ heapster_url # NoURL
  /\ Goto(c, "get", "status")
  /\ \E s \in {OK, ServerError}, b \in Bodies, w \in BOOLEAN :
       upstream' = [upstream EXCEPT ![c] = [status |-> s, body |-> b, whole |-> w]]
  /\ open' = [open EXCEPT ![c] = TRUE]
  /\ UNCHANGED <<main, heapster_url, client>>

\* Faulty variant: a bad status is retried at once, for ever.
RejectStatus_Retries(c) ==
  /\ upstream[c].status # OK
  /\ Goto(c, "status", "get")
  /\ open' = [open EXCEPT ![c] = FALSE]
  /\ UNCHANGED <<main, heapster_url, upstream, client>>

RejectStatus(c) ==
  /\ upstream[c].status # OK
  /\ Goto(c, "status", "done")
  /\ Return(c, EmptyReply)
  /\ UNCHANGED <<main, heapster_url, upstream>>

\* Faulty variant: the status is not looked at.
AcceptStatus_Any(c) ==
  /\ Goto(c, "status", "read")
  /\ UNCHANGED <<main, heapster_url, upstream, open, client>>

AcceptStatus(c) ==
  /\ upstream[c].status = OK
  /\ Goto(c, "status", "read")
  /\ UNCHANGED <<main, heapster_url, upstream, open, client>>

\* Faulty variant: the error path forgets to close the Body.
ReadFails_LeavesOpen(c) ==
  /\ ~upstream[c].whole
  /\ Goto(c, "read", "done")
  /\ client' = [client EXCEPT ![c] = EmptyReply]
  /\ UNCHANGED <<main, heapster_url, upstream, open>>

\* Faulty variant: a body that cannot be read in full is asked for again.
ReadFails_Refetches(c) ==
  /\ ~upstream[c].whole
  /\ Goto(c, "read", "get")
  /\ open' = [open EXCEPT ![c] = FALSE]
  /\ UNCHANGED <<main, heapster_url, upstream, client>>

\* ReadAll returns an error: the connection to Heapster broke off.
ReadFails(c) ==
  /\ ~upstream[c].whole
  /\ Goto(c, "read", "done")
  /\ Return(c, EmptyReply)
  /\ UNCHANGED <<main, heapster_url, upstream>>

\* Faulty variant: the error of ReadAll is not looked at.
ReadAll_IgnoresError(c) ==
  /\ Goto(c, "read", "write")
  /\ UNCHANGED <<main, heapster_url, upstream, open, client>>

ReadAll(c) ==
  /\ upstream[c].whole
  /\ Goto(c, "read", "write")
  /\ UNCHANGED <<main, heapster_url, upstream, open, client>>

Write(c) ==
  /\ Goto(c, "write", "done")
  /\ Return(c, [status |-> OK, body |-> upstream[c].body])
  /\ UNCHANGED <<main, heapster_url, upstream>>

\* The browser is gone: it receives nothing.
WriteFails(c) ==
  /\ Goto(c, "write", "done")
  /\ Return(c, NoReply)
  /\ UNCHANGED <<main, heapster_url, upstream>>

\* The browser takes the reply; the connection is free for its next request.
Finish(c) ==
  /\ Goto(c, "done", "idle")
  /\ UNCHANGED <<main, heapster_url, upstream, open, client>>

HandlerStep(c) ==
  \/ GetFails(c)
  \/ GetAnswers(c)
  \/ RejectStatus(c)
  \/ AcceptStatus(c)
  \/ ReadFails(c)
  \/ ReadAll(c)
  \/ Write(c)
  \/ WriteFails(c)

Next ==
  \/ ResolveURL
  \/ SetupHandlers
  \/ Run
  \/ RunFails
  \/ \E c \in Conns : Accept(c) \/ HandlerStep(c) \/ Finish(c)

Spec == Init /\ [][Next]_vars

\* http.Get has no timeout: that a handler makes progress assumes that
\* Heapster, or the network on its behalf, answers or fails eventually.
FairSpec == Spec /\ \A c \in Conns : WF_vars(HandlerStep(c))

-----------------------------------------------------------------------------
(* Properties *)

\* Whatever non-empty body the browser receives is the body that Heapster
\* sent with status 200 for that very request: an error page, a body read in
\* part or one of an earlier request on the connection never reaches it.
RelaysOnlyGoodBodies ==
  \A c \in Conns :
    client[c].body # Empty =>
      /\ upstream[c].status = OK
      /\ upstream[c].whole
      /\ client[c].body = upstream[c].body

\* The Body of a response is open exactly while its handler may still read
\* it: every path out of apiHandler closes it, and none closes it early.
BodyClosedOnReturn ==
  \A c \in Conns : open[c] <=> pc[c] \in {"status", "read", "write"}

\* Heapster gave the request a complete 200 response.
Succeeded(r) == r.status = OK /\ r.whole

\* No failure upstream is visible to the browser as a failure: if Heapster
\* could not be reached, answered with another status or broke off in its
\* body, the browser gets an empty 200 reply, no error and no broken
\* connection, which the page's callbacks take for "no metrics".
FailuresAreMasked ==
  \A c \in Conns :
    /\ pc[c] = "done"
    /\ ~Succeeded(upstream[c])
    => client[c] = EmptyReply

\* What a browser sees of a handler: it is running ("asked") until it is done.
RelayPhase(p) ==
  CASE p = "idle" -> "free" [] p = "done" -> "answered" [] OTHER -> "asked"

\* What may be relayed of a response, and what was received of a reply.
Relayable(r) == IF Succeeded(r) THEN r.body ELSE "nothing"
Received(r) == IF r.status = OK THEN r.body ELSE "nothing"

AbstractRelay == INSTANCE Relay WITH
  NoBody <- "nothing",
  phase <- [c \in Conns |-> RelayPhase(pc[c])],
  source <- [c \in Conns |-> Relayable(upstream[c])],
  reply <- [c \in Conns |-> Received(client[c])]

\* The web server implements the abstract relay: whatever Heapster, the
\* network and the other connections do, apiHandler answers a question once,
\* with the one body fetched for it, an empty one or nothing.
ImplementsRelay == AbstractRelay!FairSpec

\* Every request that a handler has started is finished.
EveryRequestFinishes ==
  \A c \in Conns : pc[c] = "get" ~> pc[c] = "done"

=============================================================================
