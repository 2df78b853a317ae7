------------------------------- MODULE Relay --------------------------------
(***************************************************************************)
(* What the API relay promises to a browser, without how it is done: a     *)
(* connection asks, the source gives at most one answer to that question,  *)
(* and the connection is answered exactly once, with the body of that very *)
(* answer, with an empty body or, if it was cut off, with nothing.         *)
(***************************************************************************)

CONSTANTS
  Conns,   \* the connections
  Bodies,  \* the bodies an answer can have
  Empty,   \* the empty body
  NoBody   \* no answer, or none that may be relayed

VARIABLES
  phase,   \* is a connection free, has it asked, is it answered
  source,  \* the body that may be relayed to it
  reply    \* the body it has received

vars == <<phase, source, reply>>

Init ==
  /\ phase = [c \in Conns |-> "free"]
  /\ source = [c \in Conns |-> NoBody]
  /\ reply = [c \in Conns |-> NoBody]

Move(c, from, to) ==
  /\ phase[c] = from
  /\ phase' = [phase EXCEPT ![c] = to]

\* A question starts from nothing: no answer of an earlier one is left.
Ask(c) ==
  /\ Move(c, "free", "asked")
  /\ source' = [source EXCEPT ![c] = NoBody]
  /\ reply' = [reply EXCEPT ![c] = NoBody]

\* The source answers, at most once.
Fetch(c) ==
  /\ phase[c] = "asked"
  /\ source[c] = NoBody
  /\ \E b \in Bodies : source' = [source EXCEPT ![c] = b]
  /\ UNCHANGED <<phase, reply>>

Reply(c) ==
  /\ Move(c, "asked", "answered")
  /\ \E b \in {source[c], Empty, NoBody} : reply' = [reply EXCEPT ![c] = b]
  /\ UNCHANGED source

Release(c) ==
  /\ Move(c, "answered", "free")
  /\ UNCHANGED <<source, reply>>

Next == \E c \in Conns : Ask(c) \/ Fetch(c) \/ Reply(c) \/ Release(c)

Spec == Init /\ [][Next]_vars

\* Whoever has asked is answered.
FairSpec == Spec /\ \A c \in Conns : WF_vars(Reply(c))

=============================================================================
