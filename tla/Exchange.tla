------------------------------ MODULE Exchange -------------------------------
(***************************************************************************)
(* What a browser sees of the web framework, without contexts, middlewares *)
(* and handlers: on each connection a request is asked, answered with one  *)
(* status line that this very request allows, and only then is the         *)
(* connection free again.  Connections know nothing of each other.         *)
(***************************************************************************)

CONSTANTS
  Conns,      \* the connections
  Requests,   \* what can be asked
  NoRequest,  \* what a free connection asks
  Allowed     \* the statuses that each request may be answered with

VARIABLES
  asked,   \* the request of each connection
  answer   \* the status lines sent for it

vars == <<asked, answer>>

Init ==
  /\ asked = [c \in Conns |-> NoRequest]
  /\ answer = [c \in Conns |-> <<>>]

Ask(c, r) ==
  /\ asked[c] = NoRequest
  /\ asked' = [asked EXCEPT ![c] = r]
  /\ UNCHANGED answer

Answer(c) ==
  /\ asked[c] # NoRequest
  /\ answer[c] = <<>>
  /\ \E s \in Allowed[asked[c]] : answer' = [answer EXCEPT ![c] = <<s>>]
  /\ UNCHANGED asked

Release(c) ==
  /\ answer[c] # <<>>
  /\ asked' = [asked EXCEPT ![c] = NoRequest]
  /\ answer' = [answer EXCEPT ![c] = <<>>]

Next ==
  \E c \in Conns :
    \/ \E r \in Requests : Ask(c, r)
    \/ Answer(c)
    \/ Release(c)

Spec == Init /\ [][Next]_vars

=============================================================================
