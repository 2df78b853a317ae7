--------------------------- MODULE ApiProxyProofs ---------------------------
(***************************************************************************)
(* The safety of the web server, for any number of connections and any     *)
(* bodies.  The invariants the runs check are not inductive one by one:    *)
(* that a body relayed is Heapster's and complete, and that what is not    *)
(* complete is masked, needs that the handler past the status check holds  *)
(* a 200 response, past ReadAll a whole one, and that the client has       *)
(* nothing while its handler runs (HandlerInv).                            *)
(***************************************************************************)
EXTENDS ApiProxy, TLAPS

\* What a handler has established at each point of apiHandler.
HandlerInv ==
  \A c \in Conns :
    /\ pc[c] = "get" => upstream[c] = NoResponse
    /\ pc[c] \in {"read", "write"} => upstream[c].status = OK
    /\ pc[c] = "write" => upstream[c].whole
    /\ pc[c] \in {"get", "status", "read", "write"} => client[c] = NoReply

IInv ==
  /\ TypeOK
  /\ HandlerInv
  /\ RelaysOnlyGoodBodies
  /\ BodyClosedOnReturn
  /\ FailuresAreMasked

\* The initial state satisfies the inductive invariant.
LEMMA InitIInv == Init => IInv
BY ProxyConstants
DEF Init, IInv, TypeOK, HandlerInv, RelaysOnlyGoodBodies,
    BodyClosedOnReturn, FailuresAreMasked, Succeeded, NoResponse, NoReply,
    Responses, Replies, Bodies, OK, ServerError, NoURL

\* Every step has the types of the variables: a reply has status 200 or none
\* at all, whatever the status that Heapster gave.
LEMMA StepTypeOK == IInv /\ [Next]_vars => TypeOK'
<1> SUFFICES ASSUME IInv, [Next]_vars
             PROVE  TypeOK'
  OBVIOUS
<1> USE ProxyConstants DEF IInv, TypeOK
<1>1. CASE ResolveURL
  BY <1>1 DEF ResolveURL, ConfiguredURL, NoURL, ServiceURL
<1>2. CASE SetupHandlers
  BY <1>2 DEF SetupHandlers
<1>3. CASE Run
  BY <1>3 DEF Run
<1>4. CASE RunFails
  BY <1>4 DEF RunFails
<1>5. ASSUME NEW c \in Conns, Accept(c) \/ HandlerStep(c) \/ Finish(c)
      PROVE  TypeOK'
  <2> USE DEF Goto, Responses, Replies, Bodies, NoResponse, NoReply, EmptyReply,
              Return, OK, ServerError
  <2>1. CASE Accept(c)
    BY <2>1 DEF Accept
  <2>2. CASE GetFails(c)
    BY <2>2 DEF GetFails
  <2>3. CASE GetAnswers(c)
    BY <2>3 DEF GetAnswers
  <2>4. CASE RejectStatus(c)
    BY <2>4 DEF RejectStatus
  <2>5. CASE AcceptStatus(c)
    BY <2>5 DEF AcceptStatus
  <2>6. CASE ReadFails(c)
    BY <2>6 DEF ReadFails
  <2>7. CASE ReadAll(c)
    BY <2>7 DEF ReadAll
  <2>8. CASE Write(c)
    BY <2>8 DEF Write
  <2>9. CASE WriteFails(c)
    BY <2>9 DEF WriteFails
  <2>10. CASE Finish(c)
    BY <2>10 DEF Finish
  <2> QED
    BY <1>5, <2>1, <2>2, <2>3, <2>4, <2>5, <2>6, <2>7, <2>8, <2>9, <2>10
    DEF HandlerStep
<1>6. CASE UNCHANGED vars
  BY <1>6 DEF vars
<1> QED
  BY <1>1, <1>2, <1>3, <1>4, <1>5, <1>6 DEF Next

\* The steps of main do not touch what the handlers have established.
LEMMA MainStep ==
  ASSUME IInv, ResolveURL \/ SetupHandlers \/ Run \/ RunFails
  PROVE  /\ HandlerInv'
         /\ RelaysOnlyGoodBodies' /\ BodyClosedOnReturn' /\ FailuresAreMasked'
<1>1. UNCHANGED <<pc, upstream, open, client>>
  BY DEF ResolveURL, SetupHandlers, Run, RunFails
<1> QED
  BY <1>1 DEF IInv, HandlerInv, RelaysOnlyGoodBodies, BodyClosedOnReturn,
              FailuresAreMasked

\* Every step of a connection keeps what its handler has established, and
\* leaves the other connections alone.
LEMMA ConnStep ==
  ASSUME IInv, NEW c \in Conns, Accept(c) \/ HandlerStep(c) \/ Finish(c)
  PROVE  /\ HandlerInv'
         /\ RelaysOnlyGoodBodies' /\ BodyClosedOnReturn' /\ FailuresAreMasked'
<1> USE DEF IInv, TypeOK, HandlerInv, RelaysOnlyGoodBodies, BodyClosedOnReturn,
            FailuresAreMasked, Succeeded, Goto, Return, NoResponse, NoReply,
            EmptyReply, Responses, Replies, Bodies, OK, ServerError
<1>1. CASE Accept(c)
  BY <1>1 DEF Accept
<1>2. CASE GetFails(c)
  BY <1>2 DEF GetFails
<1>3. CASE GetAnswers(c)
  BY <1>3 DEF GetAnswers
<1>4. CASE RejectStatus(c)
  BY <1>4 DEF RejectStatus
<1>5. CASE AcceptStatus(c)
  BY <1>5 DEF AcceptStatus
<1>6. CASE ReadFails(c)
  BY <1>6 DEF ReadFails
<1>7. CASE ReadAll(c)
  BY <1>7 DEF ReadAll
<1>8. CASE Write(c)
  BY <1>8 DEF Write
<1>9. CASE WriteFails(c)
  BY <1>9 DEF WriteFails
<1>10. CASE Finish(c)
  BY <1>10 DEF Finish
<1> QED
  BY <1>1, <1>2, <1>3, <1>4, <1>5, <1>6, <1>7, <1>8, <1>9, <1>10
  DEF HandlerStep

\* The inductive invariant holds in every reachable state.
THEOREM ProxyInvariant == Spec => []IInv
<1>1. IInv /\ [Next]_vars => IInv'
  <2> SUFFICES ASSUME IInv, [Next]_vars
               PROVE  IInv'
    OBVIOUS
  <2>1. TypeOK'
    BY StepTypeOK
  <2>2. CASE UNCHANGED vars
    BY <2>1, <2>2 DEF vars, IInv, HandlerInv, RelaysOnlyGoodBodies,
                      BodyClosedOnReturn, FailuresAreMasked
  <2>3. CASE ResolveURL \/ SetupHandlers \/ Run \/ RunFails
    BY <2>1, <2>3, MainStep DEF IInv
  <2>4. CASE \E c \in Conns : Accept(c) \/ HandlerStep(c) \/ Finish(c)
    BY <2>1, <2>4, ConnStep DEF IInv
  <2> QED
    BY <2>2, <2>3, <2>4 DEF Next
<1> QED
  BY <1>1, InitIInv, PTL DEF Spec

\* The variables always have their types: in particular no status other than
\* 200 ever reaches a browser.
THEOREM ProxyTypeOK == Spec => []TypeOK
BY ProxyInvariant, PTL DEF IInv

\* Whatever non-empty body a browser receives is the body that Heapster sent
\* with status 200 for that very request, for any number of connections.
THEOREM ProxyRelaysOnlyGoodBodies == Spec => []RelaysOnlyGoodBodies
BY ProxyInvariant, PTL DEF IInv

\* Every path out of apiHandler closes the Body of the response it got, and
\* no path closes it before it is done with it.
THEOREM ProxyBodyClosedOnReturn == Spec => []BodyClosedOnReturn
BY ProxyInvariant, PTL DEF IInv

\* Whatever fails upstream (no connection, another status, a body that breaks
\* off), the handler's reply to the browser is an empty one with status 200.
THEOREM ProxyFailuresAreMasked == Spec => []FailuresAreMasked
BY ProxyInvariant, PTL DEF IInv

-----------------------------------------------------------------------------
(* The refinement.  Its liveness part is TLC's. *)

\* The refinement mapping is pointwise: a step that changes the variables of
\* one connection only updates the abstract ones at that connection.
LEMMA OnlyOneConn ==
  ASSUME NEW c \in Conns,
         \A d \in Conns \ {c} :
           pc'[d] = pc[d] /\ upstream'[d] = upstream[d] /\ client'[d] = client[d]
  PROVE  /\ [d \in Conns |-> RelayPhase(pc'[d])] =
              [[d \in Conns |-> RelayPhase(pc[d])] EXCEPT ![c] = RelayPhase(pc'[c])]
         /\ [d \in Conns |-> Relayable(upstream'[d])] =
              [[d \in Conns |-> Relayable(upstream[d])] EXCEPT ![c] = Relayable(upstream'[c])]
         /\ [d \in Conns |-> Received(client'[d])] =
              [[d \in Conns |-> Received(client[d])] EXCEPT ![c] = Received(client'[c])]
<1>1. \A d \in Conns \ {c} : /\ RelayPhase(pc'[d]) = RelayPhase(pc[d])
                            /\ Relayable(upstream'[d]) = Relayable(upstream[d])
                            /\ Received(client'[d]) = Received(client[d])
  OBVIOUS
<1> QED
  BY <1>1

\* What the mapping shows of a step of a connection: a relay step or nothing.
LEMMA ConnStepRefines ==
  ASSUME IInv, NEW c \in Conns, Accept(c) \/ HandlerStep(c) \/ Finish(c)
  PROVE  AbstractRelay!Next \/ UNCHANGED AbstractRelay!vars
<1>1. \A d \in Conns \ {c} :
        pc'[d] = pc[d] /\ upstream'[d] = upstream[d] /\ client'[d] = client[d]
  BY DEF IInv, TypeOK, Accept, HandlerStep, Finish, GetFails, GetAnswers,
         RejectStatus, AcceptStatus, ReadFails, ReadAll, Write, WriteFails,
         Goto, Return
<1>2. \/ Accept(c)
      \/ GetAnswers(c) /\ Succeeded(upstream'[c])
      \/ UNCHANGED <<RelayPhase(pc[c]), Relayable(upstream[c]), Received(client[c])>>
      \/ /\ RelayPhase(pc[c]) = "asked"
         /\ RelayPhase(pc'[c]) = "answered"
         /\ Relayable(upstream'[c]) = Relayable(upstream[c])
         /\ Received(client'[c]) \in {Relayable(upstream[c]), Empty, "nothing"}
      \/ Finish(c)
  <2> USE DEF IInv, TypeOK, HandlerInv, Goto, Return, RelayPhase, Relayable,
              Received, Succeeded, NoResponse, NoReply, EmptyReply, Responses,
              Replies, OK, ServerError
  <2>1. CASE Accept(c) \/ Finish(c)
    BY <2>1
  <2>2. CASE GetFails(c)
    BY <2>2 DEF GetFails
  <2>3. CASE GetAnswers(c)
    <3>1. /\ RelayPhase(pc[c]) = "asked" /\ RelayPhase(pc'[c]) = "asked"
          /\ Relayable(upstream[c]) = "nothing"
          /\ Received(client'[c]) = Received(client[c])
      BY <2>3 DEF GetAnswers
    <3>2. ~Succeeded(upstream'[c]) => Relayable(upstream'[c]) = "nothing"
      BY DEF Relayable
    <3> QED
      BY <2>3, <3>1, <3>2
  <2>4. CASE RejectStatus(c)
    BY <2>4 DEF RejectStatus
  <2>5. CASE AcceptStatus(c)
    BY <2>5 DEF AcceptStatus
  <2>6. CASE ReadFails(c)
    BY <2>6 DEF ReadFails
  <2>7. CASE ReadAll(c)
    BY <2>7 DEF ReadAll
  <2>8. CASE Write(c)
    BY <2>8 DEF Write
  <2>9. CASE WriteFails(c)
    BY <2>9 DEF WriteFails
  <2> QED
    BY <2>1, <2>2, <2>3, <2>4, <2>5, <2>6, <2>7, <2>8, <2>9 DEF HandlerStep
<1>3. CASE Accept(c)
  <2>1. RelayPhase(pc[c]) = "free" /\ RelayPhase(pc'[c]) = "asked"
        /\ Relayable(upstream'[c]) = "nothing" /\ Received(client'[c]) = "nothing"
    BY <1>3 DEF Accept, Goto, IInv, TypeOK, RelayPhase, Relayable, Received,
                Succeeded, NoResponse, NoReply, OK
  <2>2. AbstractRelay!Ask(c)
    BY <1>1, <2>1, OnlyOneConn DEF AbstractRelay!Ask, AbstractRelay!Move
  <2> QED
    BY <2>2 DEF AbstractRelay!Next
<1>4. CASE GetAnswers(c) /\ Succeeded(upstream'[c])
  <2>1. /\ RelayPhase(pc[c]) = "asked" /\ RelayPhase(pc'[c]) = "asked"
        /\ Relayable(upstream[c]) = "nothing"
        /\ Relayable(upstream'[c]) \in Bodies
        /\ Received(client'[c]) = Received(client[c])
    BY <1>4 DEF GetAnswers, Goto, IInv, TypeOK, HandlerInv, RelayPhase,
                Relayable, Received, Succeeded, NoResponse, NoReply, Responses,
                OK, ServerError
  <2>2. AbstractRelay!Fetch(c)
    BY <1>1, <2>1, OnlyOneConn, ZenonT(30) DEF AbstractRelay!Fetch
  <2> QED
    BY <2>2 DEF AbstractRelay!Next
<1>5. CASE UNCHANGED <<RelayPhase(pc[c]), Relayable(upstream[c]), Received(client[c])>>
  BY <1>1, <1>5, OnlyOneConn DEF AbstractRelay!vars
<1>6. CASE /\ RelayPhase(pc[c]) = "asked"
           /\ RelayPhase(pc'[c]) = "answered"
           /\ Relayable(upstream'[c]) = Relayable(upstream[c])
           /\ Received(client'[c]) \in {Relayable(upstream[c]), Empty, "nothing"}
  <2>1. AbstractRelay!Reply(c)
    BY <1>1, <1>6, OnlyOneConn DEF AbstractRelay!Reply, AbstractRelay!Move
  <2> QED
    BY <2>1 DEF AbstractRelay!Next
<1>7. CASE Finish(c)
  <2>1. /\ RelayPhase(pc[c]) = "answered" /\ RelayPhase(pc'[c]) = "free"
        /\ Relayable(upstream'[c]) = Relayable(upstream[c])
        /\ Received(client'[c]) = Received(client[c])
    BY <1>7 DEF Finish, Goto, IInv, TypeOK, RelayPhase, Relayable, Received
  <2>2. AbstractRelay!Release(c)
    BY <1>1, <2>1, OnlyOneConn DEF AbstractRelay!Release, AbstractRelay!Move
  <2> QED
    BY <2>2 DEF AbstractRelay!Next
<1> QED
  BY <1>2, <1>3, <1>4, <1>5, <1>6, <1>7

\* The safety part of ImplementsRelay, for any number of connections and any
\* bodies: every step of the web server is a step of the abstract relay, or
\* one that a browser cannot see.
THEOREM ProxyImplementsRelay == Spec => AbstractRelay!Spec
<1>1. Init => AbstractRelay!Init
  BY DEF Init, AbstractRelay!Init, NoResponse, NoReply, OK, RelayPhase,
         Relayable, Received, Succeeded
<1>2. IInv /\ [Next]_vars => [AbstractRelay!Next]_(AbstractRelay!vars)
  <2> SUFFICES ASSUME IInv, [Next]_vars
               PROVE  AbstractRelay!Next \/ UNCHANGED AbstractRelay!vars
    OBVIOUS
  <2>1. CASE UNCHANGED vars \/ ResolveURL \/ SetupHandlers \/ Run \/ RunFails
    BY <2>1 DEF vars, ResolveURL, SetupHandlers, Run, RunFails, AbstractRelay!vars
  <2>2. CASE \E c \in Conns : Accept(c) \/ HandlerStep(c) \/ Finish(c)
    BY <2>2, ConnStepRefines
  <2> QED
    BY <2>1, <2>2 DEF Next
<1> QED
  BY <1>1, <1>2, ProxyInvariant, PTL DEF Spec, AbstractRelay!Spec

=============================================================================
