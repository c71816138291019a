------------------------ MODULE WorkerService_proofs ------------------------
(***************************************************************************)
(* Proofs about WorkerService, for every set of requests and pings and     *)
(* every bound on restarts: its type invariant, that a call never finds    *)
(* the service without a worker, that the service implements               *)
(* DrainableService, and that no message between the two threads is lost   *)
(* or duplicated.                                                          *)
(***************************************************************************)
EXTENDS WorkerService, SequenceTheorems, FiniteSetTheorems, TLAPS

-----------------------------------------------------------------------------
(* Facts about calls and messages *)

\* What the tag and the id of each kind of call are.
LEMMA CallsFacts ==
    /\ \A r \in Requests : <<"request", r>> \in Calls
    /\ \A p \in Pings : <<"ping", p>> \in Calls
    /\ \A r \in Nested : <<"respond", r>> \in Calls
    /\ \A k \in Calls : \/ k[1] = "request" /\ k[2] \in Requests /\ k = <<"request", k[2]>>
                        \/ k[1] = "ping" /\ k[2] \in Pings /\ k = <<"ping", k[2]>>
                        \/ k[1] = "respond" /\ k[2] \in Nested /\ k = <<"respond", k[2]>>
  BY DEF Calls

\* Every message the two threads post has its type.
LEMMA MessageFacts ==
    /\ \A r \in Requests : Msg("REQUEST", r) \in ToWorkerMessages
    /\ \A p \in Pings : Msg("DEFAULT", p) \in ToWorkerMessages
    /\ \A r \in Nested : Msg("RESPONSE", r) \in ToWorkerMessages
    /\ \A r \in Requests : Msg("RESPONSE", r) \in ToMainMessages
    /\ \A r \in Nested : Msg("REQUEST", r) \in ToMainMessages
    /\ \A m \in ToMainMessages :
          \/ m.type = "RESPONSE" /\ m.id \in Requests
          \/ m.type = "REQUEST" /\ m.id \in Nested /\ m \in NestedRequests
    /\ \A m \in ToWorkerMessages :
          \/ m.type = "REQUEST" /\ m.id \in Requests
          \/ m.type = "RESPONSE" /\ m.id \in Nested
          \/ m.type = "DEFAULT" /\ m.id \in Pings
  BY DEF Msg, ToWorkerMessages, ToMainMessages, NestedRequests

\* Taking the head of a non-empty sequence, and removing an element, keep the type.
LEMMA DequeueType ==
    ASSUME NEW S, NEW s \in Seq(S), s # <<>>
    PROVE  Head(s) \in S /\ Tail(s) \in Seq(S)
  BY HeadTailProperties

LEMMA EnqueueType ==
    ASSUME NEW S, NEW s \in Seq(S), NEW e \in S
    PROVE  Append(s, e) \in Seq(S)
  BY AppendProperties

LEMMA RemoveType ==
    ASSUME NEW S, NEW s \in Seq(S), NEW i \in 1..Len(s)
    PROVE  SubSeq(s, 1, i - 1) \o SubSeq(s, i + 1, Len(s)) \in Seq(S)
  <1>1. SubSeq(s, 1, i - 1) \in Seq(S) /\ SubSeq(s, i + 1, Len(s)) \in Seq(S)
    BY SubSeqProperties
  <1> QED  BY <1>1, ConcatProperties

-----------------------------------------------------------------------------
(* Type correctness *)

\* Going on with a call keeps the types of what it changes.
LEMMA PostType ==
    ASSUME TypeOK, NEW m \in ToWorkerMessages, Post(m)
    PROVE  toWorker' \in Seq(ToWorkerMessages)
  <1>1. toWorker \in Seq(ToWorkerMessages) /\ toWorker' \in {toWorker, Append(toWorker, m)}
    BY DEF Post, TypeOK
  <1> QED  BY <1>1, EnqueueType

LEMMA ProceedType ==
    ASSUME TypeOK, NEW k \in Calls, Proceed(k)
    PROVE  /\ pc' \in [Calls -> {"idle", "called", "waiting", "awaiting", "done",
                                 "cancelled", "skipped"}]
           /\ channels' \subseteq Requests
           /\ toWorker' \in Seq(ToWorkerMessages)
  <1>1. CASE ~hasWorker
    BY <1>1 DEF Proceed, TypeOK
  <1>2. CASE hasWorker /\ k[1] = "request"
    <2>1. k[2] \in Requests /\ Msg("REQUEST", k[2]) \in ToWorkerMessages
      BY <1>2, CallsFacts, MessageFacts
    <2>2. Post(Msg("REQUEST", k[2]))
      BY <1>2 DEF Proceed
    <2>3. toWorker' \in Seq(ToWorkerMessages)
      BY <2>1, <2>2, PostType
    <2> QED  BY <1>2, <2>1, <2>3 DEF Proceed, TypeOK
  <1>3. CASE hasWorker /\ k[1] # "request"
    <2> DEFINE m == Msg(IF k[1] = "ping" THEN "DEFAULT" ELSE "RESPONSE", k[2])
    <2>1. m \in ToWorkerMessages
      BY <1>3, CallsFacts, MessageFacts
    <2>2. Post(m)
      BY <1>3 DEF Proceed
    <2>3. toWorker' \in Seq(ToWorkerMessages)
      <3> HIDE DEF m
      <3> QED  BY <2>1, <2>2, PostType
    <2> QED  BY <1>3, <2>3 DEF Proceed, TypeOK
  <1> QED  BY <1>1, <1>2, <1>3

\* Every variable keeps its type in every step.
LEMMA TypeStep ==
    ASSUME TypeOK, [Next]_vars
    PROVE  TypeOK'
  <1> USE WorkerAssumption
  <1>1. ASSUME NEW k \in Calls, Call(k) PROVE TypeOK'
    <2>1. CASE Accepting
      <3>1. Proceed(k)
        BY <1>1, <2>1 DEF Call
      <3>2. /\ pc' \in [Calls -> {"idle", "called", "waiting", "awaiting", "done",
                                  "cancelled", "skipped"}]
            /\ channels' \subseteq Requests
            /\ toWorker' \in Seq(ToWorkerMessages)
        BY <3>1, ProceedType
      <3> QED  BY <1>1, <2>1, <3>2 DEF Call, TypeOK, workerVars
    <2>2. CASE ~Accepting
      <3>1. readyTakers' \in Seq(Calls)
        <4>1. readyTakers' = Append(readyTakers, k)
          BY <1>1, <2>2 DEF Call
        <4>2. readyTakers \in Seq(Calls)
          BY DEF TypeOK
        <4> QED  BY <1>1, <4>1, <4>2, EnqueueType
      <3> QED  BY <1>1, <2>2, <3>1 DEF Call, TypeOK, workerVars
    <2> QED  BY <2>1, <2>2
  <1>2. ASSUME NEW k \in Calls, Cancel(k) PROVE TypeOK'
    <2>1. readyTakers' \in Seq(Calls)
      <3>1. CASE readyTakers' = readyTakers
        BY <3>1 DEF TypeOK
      <3>2. CASE \E i \in 1..Len(readyTakers) :
                   readyTakers' = SubSeq(readyTakers, 1, i - 1)
                                    \o SubSeq(readyTakers, i + 1, Len(readyTakers))
        <4>1. readyTakers \in Seq(Calls)
          BY DEF TypeOK
        <4> QED  BY <3>2, <4>1, RemoveType
      <3> QED  BY <1>2, <3>1, <3>2 DEF Cancel
    <2> QED  BY <1>2, <2>1 DEF Cancel, DropChannel, TypeOK, workerVars
  <1>3. CASE Start
    BY <1>3 DEF Start, TypeOK, workerVars
  <1>4. CASE Signal
    <2>1. CASE readyTakers = <<>>
      BY <1>4, <2>1 DEF Signal, TypeOK, workerVars
    <2>2. CASE readyTakers # <<>>
      <3>1. Head(readyTakers) \in Calls /\ Tail(readyTakers) \in Seq(Calls)
        BY <2>2, DequeueType DEF TypeOK
      <3>2. Proceed(Head(readyTakers))
        BY <1>4, <2>2 DEF Signal
      <3>3. /\ pc' \in [Calls -> {"idle", "called", "waiting", "awaiting", "done",
                                  "cancelled", "skipped"}]
            /\ channels' \subseteq Requests
            /\ toWorker' \in Seq(ToWorkerMessages)
        BY <3>1, <3>2, ProceedType
      <3> QED  BY <1>4, <2>2, <3>1, <3>3 DEF Signal, TypeOK, workerVars
    <2> QED  BY <2>1, <2>2
  <1>5. CASE Shutdown
    BY <1>5, EmptySeq DEF Shutdown, CloseWorker, TypeOK
  <1>6. CASE Drained
    BY <1>6, EmptySeq DEF Drained, CloseWorker, TypeOK
  <1>7. CASE Broker
    <2> DEFINE m == Head(toMain)
    <2>1. m \in ToMainMessages /\ toMain' \in Seq(ToMainMessages)
      BY <1>7, DequeueType DEF Broker, TypeOK
    <2>2. CASE IsResponse(m)
      <3>1. <<"request", m.id>> \in Calls
        BY <2>1, <2>2, MessageFacts, CallsFacts DEF IsResponse
      <3> QED  BY <1>7, <2>1, <2>2, <3>1 DEF Broker, DropChannel, TypeOK, workerVars
    <2>3. CASE ~IsResponse(m)
      <3>1. m \in NestedRequests
        BY <2>1, <2>3, MessageFacts DEF IsResponse
      <3>2. listener' \in Seq(NestedRequests)
        <4>1. listener' \in {listener, Append(listener, m)}
          BY <1>7, <2>3 DEF Broker
        <4>2. listener \in Seq(NestedRequests)
          BY DEF TypeOK
        <4> HIDE DEF m
        <4> QED  BY <3>1, <4>1, <4>2, EnqueueType
      <3> QED  BY <1>7, <2>1, <2>3, <3>2 DEF Broker, TypeOK, workerVars
    <2> QED  BY <2>2, <2>3
  <1>8. CASE HandleWorkerMessage
    BY <1>8, DequeueType DEF HandleWorkerMessage, TypeOK, workerVars
  <1>9. CASE WorkerReceive
    <2>1. Head(toWorker) \in ToWorkerMessages /\ toWorker' \in Seq(ToWorkerMessages)
      BY <1>9, DequeueType DEF WorkerReceive, TypeOK
    <2> QED  BY <1>9, <2>1, MessageFacts DEF WorkerReceive, TypeOK, mainVars
  <1>10. ASSUME NEW r \in Requests, Ask(r) PROVE TypeOK'
    BY <1>10, MessageFacts, EnqueueType DEF Ask, TypeOK, mainVars
  <1>11. ASSUME NEW r \in Requests, Answer(r) PROVE TypeOK'
    BY <1>11, MessageFacts, EnqueueType DEF Answer, TypeOK, mainVars
  <1>12. ASSUME NEW r \in Requests, Fail(r) PROVE TypeOK'
    BY <1>12 DEF Fail, TypeOK, mainVars
  <1>13. CASE UNCHANGED vars
    BY <1>13 DEF vars, TypeOK
  <1> QED
    BY <1>1, <1>2, <1>3, <1>4, <1>5, <1>6, <1>7, <1>8, <1>9, <1>10, <1>11, <1>12,
       <1>13 DEF Next

\* The initial state has the types.
LEMMA InitTyped == Init => TypeOK
  <1> SUFFICES ASSUME Init PROVE TypeOK
    OBVIOUS
  <1>1. /\ readyTakers \in Seq(Calls)
        /\ listener \in Seq(NestedRequests)
        /\ toWorker \in Seq(ToWorkerMessages)
        /\ toMain \in Seq(ToMainMessages)
    BY EmptySeq DEF Init
  <1>2. pc \in [Calls -> {"idle", "called", "waiting", "awaiting", "done",
                         "cancelled", "skipped"}]
    BY DEF Init
  <1>3. handler \in [Requests -> {"none", "running", "asking", "resumed",
                                 "answered", "failed"}]
    BY DEF Init
  <1>4. starts \in 0..MaxStarts
    BY WorkerAssumption DEF Init
  <1>5. /\ isReady \in BOOLEAN /\ hasWorker \in BOOLEAN /\ alive \in BOOLEAN
        /\ closed \in BOOLEAN
        /\ channels \subseteq Requests
        /\ ctl \in {"idle", "signalling", "draining"}
    BY DEF Init
  <1> QED  BY <1>1, <1>2, <1>3, <1>4, <1>5 DEF TypeOK

\* Every variable always has its type: ids in _channels are request ids, only
\* nested requests reach listenerChannel, and every message fits its direction.
THEOREM TypeCorrect == Spec => []TypeOK
  <1>1. TypeOK /\ [Next]_vars => TypeOK'
    BY TypeStep
  <1> QED  BY <1>1, InitTyped, PTL DEF Spec

-----------------------------------------------------------------------------
(* The phases of the service *)

InFlight == {r \in Requests : pc[<<"request", r>>] = "awaiting"}

\* Why the service is graceful.  The flags and the controlling saga agree on the
\* phase, _channels holds exactly the requests in flight, there are none without
\* a worker, and nobody gave up for lack of one.
PhaseInv ==
    /\ isReady => hasWorker
    /\ ctl = "signalling" => isReady
    /\ ctl = "draining" <=> (hasWorker /\ ~isReady)
    /\ channels = InFlight
    /\ ~hasWorker => channels = {}
    /\ NoCallGivesUp

\* A call that goes on while there is a worker: a request becomes one in flight,
\* and no other request changes.
LEMMA ProceedInFlight ==
    ASSUME TypeOK, PhaseInv, hasWorker, NEW k \in Calls, Proceed(k)
    PROVE  /\ channels' = InFlight'
           /\ channels' = channels \/ (k[1] = "request" /\ channels' = channels \cup {k[2]})
           /\ NoCallGivesUp'
  <1>1. \A j \in Calls : pc'[j] = IF j = k THEN pc'[k] ELSE pc[j]
    BY DEF Proceed, TypeOK
  <1>2. CASE k[1] = "request"
    <2>1. k[2] \in Requests /\ k = <<"request", k[2]>> /\ pc'[k] = "awaiting"
      BY <1>2, CallsFacts DEF Proceed, TypeOK
    <2>2. channels' = channels \cup {k[2]}
      BY <1>2 DEF Proceed
    <2> QED  BY <1>1, <1>2, <2>1, <2>2, CallsFacts DEF PhaseInv, InFlight, NoCallGivesUp
  <1>3. CASE k[1] # "request"
    <2>1. channels' = channels /\ pc'[k] = "done"
      BY <1>3 DEF Proceed, TypeOK
    <2>2. \A r \in Requests : pc'[<<"request", r>>] = pc[<<"request", r>>]
      BY <1>1, <1>3, CallsFacts
    <2> QED  BY <1>1, <2>1, <2>2 DEF PhaseInv, InFlight, NoCallGivesUp
  <1> QED  BY <1>2, <1>3

\* The finally block: a request that stops awaiting leaves _channels with it.
LEMMA DropInFlight ==
    ASSUME TypeOK, PhaseInv, NEW r \in Requests, NEW v, v # "awaiting", v # "skipped",
           pc' = [pc EXCEPT ![<<"request", r>>] = v], DropChannel(r)
    PROVE  channels' = InFlight' /\ channels' \subseteq channels /\ NoCallGivesUp'
  <1>1. \A j \in Calls : pc'[j] = IF j = <<"request", r>> THEN v ELSE pc[j]
    BY CallsFacts DEF TypeOK
  <1> QED  BY <1>1, CallsFacts DEF PhaseInv, InFlight, DropChannel, NoCallGivesUp

\* Changing a call that is not a request leaves the requests in flight alone.
LEMMA KeepInFlight ==
    ASSUME TypeOK, PhaseInv, NEW k \in Calls, NEW v, v # "awaiting", v # "skipped",
           pc' = [pc EXCEPT ![k] = v], channels' = channels,
           k[1] # "request" \/ pc[k] # "awaiting"
    PROVE  channels' = InFlight' /\ NoCallGivesUp'
  <1>1. \A j \in Calls : pc'[j] = IF j = k THEN v ELSE pc[j]
    BY DEF TypeOK
  <1> QED  BY <1>1, CallsFacts DEF PhaseInv, InFlight, NoCallGivesUp

\* Every step keeps the phase invariant.
LEMMA PhaseStep ==
    ASSUME TypeOK, PhaseInv, [Next]_vars
    PROVE  PhaseInv'
  <1>1. ASSUME NEW k \in Calls, Call(k) PROVE PhaseInv'
    <2>1. CASE Accepting
      BY <1>1, <2>1, ProceedInFlight DEF Call, Accepting, PhaseInv
    <2>2. CASE ~Accepting
      <3>1. channels' = InFlight' /\ NoCallGivesUp'
        BY <1>1, <2>2, KeepInFlight DEF Call
      <3> QED  BY <1>1, <2>2, <3>1 DEF Call, PhaseInv
    <2> QED  BY <2>1, <2>2
  <1>2. ASSUME NEW k \in Calls, Cancel(k) PROVE PhaseInv'
    <2>1. k[2] \in Requests /\ k = <<"request", k[2]>>
      BY <1>2, CallsFacts DEF Cancel
    <2>2. channels' = InFlight' /\ NoCallGivesUp' /\ channels' \subseteq channels
      <3>1. CASE pc[k] = "waiting" /\ channels' = channels
        BY <1>2, <3>1, KeepInFlight DEF Cancel
      <3>2. CASE DropChannel(k[2])
        BY <1>2, <2>1, <3>2, DropInFlight DEF Cancel
      <3> QED  BY <1>2, <3>1, <3>2 DEF Cancel
    <2> QED  BY <1>2, <2>2 DEF Cancel, PhaseInv
  <1>3. CASE Start
    BY <1>3 DEF Start, PhaseInv, InFlight, NoCallGivesUp
  <1>4. CASE Signal
    <2>1. CASE readyTakers = <<>>
      BY <1>4, <2>1 DEF Signal, PhaseInv, InFlight, NoCallGivesUp
    <2>2. CASE readyTakers # <<>>
      <3>1. Head(readyTakers) \in Calls /\ Proceed(Head(readyTakers))
        BY <1>4, <2>2, DequeueType DEF Signal, TypeOK
      <3>2. hasWorker /\ isReady
        BY <1>4 DEF Signal, PhaseInv
      <3>3. channels' = InFlight' /\ NoCallGivesUp'
        BY <3>1, <3>2, ProceedInFlight
      <3> QED  BY <1>4, <3>2, <3>3 DEF Signal, PhaseInv
    <2> QED  BY <2>1, <2>2
  <1>5. CASE Shutdown
    BY <1>5 DEF Shutdown, CloseWorker, NoneInFlight, PhaseInv, InFlight, NoCallGivesUp
  <1>6. CASE Drained
    BY <1>6 DEF Drained, CloseWorker, NoneInFlight, PhaseInv, InFlight, NoCallGivesUp
  <1>7. CASE Broker
    <2> DEFINE m == Head(toMain)
    <2>1. m \in ToMainMessages
      BY <1>7, DequeueType DEF Broker, TypeOK
    <2>2. CASE IsResponse(m) /\ HasChannel(m.id)
      <3>1. m.id \in Requests
        BY <2>1, <2>2, MessageFacts DEF IsResponse
      <3>2. channels' = InFlight' /\ channels' \subseteq channels /\ NoCallGivesUp'
        BY <1>7, <2>2, <3>1, DropInFlight DEF Broker
      <3> QED  BY <1>7, <3>2 DEF Broker, PhaseInv
    <2>3. CASE ~(IsResponse(m) /\ HasChannel(m.id))
      <3>1. channels' = channels /\ pc' = pc
        BY <1>7, <2>3 DEF Broker, HasChannel, DropChannel
      <3> QED  BY <1>7, <3>1 DEF Broker, PhaseInv, InFlight, NoCallGivesUp
    <2> QED  BY <2>2, <2>3
  <1>8. CASE HandleWorkerMessage
    <2>1. <<"respond", Head(listener).id>> \in Calls
      <3>1. Head(listener) \in NestedRequests
        BY <1>8, DequeueType DEF HandleWorkerMessage, TypeOK
      <3> QED  BY <3>1, CallsFacts DEF NestedRequests
    <2>2. channels' = InFlight' /\ NoCallGivesUp'
      BY <1>8, <2>1, KeepInFlight DEF HandleWorkerMessage
    <2> QED  BY <1>8, <2>2 DEF HandleWorkerMessage, PhaseInv
  <1>9. CASE WorkerReceive \/ \E r \in Requests : Ask(r) \/ Answer(r) \/ Fail(r)
    <2>1. UNCHANGED mainVars
      BY <1>9 DEF WorkerReceive, Ask, Answer, Fail
    <2> QED  BY <2>1 DEF mainVars, PhaseInv, InFlight, NoCallGivesUp
  <1>10. CASE UNCHANGED vars
    BY <1>10 DEF vars, PhaseInv, InFlight, NoCallGivesUp
  <1> QED
    BY <1>1, <1>2, <1>3, <1>4, <1>5, <1>6, <1>7, <1>8, <1>9, <1>10 DEF Next

\* The phase invariant holds, together with the types it needs.
THEOREM PhasesHold == Spec => [](TypeOK /\ PhaseInv)
  <1>1. Init => TypeOK /\ PhaseInv
    <2>1. Init => TypeOK
      BY InitTyped
    <2>2. Init => PhaseInv
      BY CallsFacts DEF Init, PhaseInv, InFlight, NoCallGivesUp
    <2> QED  BY <2>1, <2>2
  <1>2. TypeOK /\ PhaseInv /\ [Next]_vars => (TypeOK /\ PhaseInv)'
    BY TypeStep, PhaseStep
  <1> QED  BY <1>1, <1>2, PTL DEF Spec

\* "Impossible case" of request() (WorkerUtil.ts): whoever was told that the
\* service is ready finds a worker.
THEOREM NobodyGivesUp == Spec => []NoCallGivesUp
  <1>1. PhaseInv => NoCallGivesUp
    BY DEF PhaseInv
  <1> QED  BY <1>1, PhasesHold, PTL

-----------------------------------------------------------------------------
(* Implementation of DrainableService *)

\* Every step accepts, ends, opens, stops or closes, or changes nothing of that.
LEMMA GracefulStep ==
    ASSUME TypeOK, PhaseInv, PhaseInv', [Next]_vars
    PROVE  [Graceful!Next]_(Graceful!vars)
  <1> USE DEF Graceful!vars
  <1>0. InFlight = channels /\ InFlight' = channels'
    BY DEF PhaseInv
  <1>1. CASE /\ UNCHANGED <<isReady, hasWorker>>
             /\ \/ channels' = channels
                \/ \E r \in Requests : channels' = channels \ {r}
                \/ isReady /\ \E r \in Requests : channels' = channels \cup {r}
    BY <1>0, <1>1 DEF Graceful!Next, Graceful!Finish, Graceful!Accept, InFlight
  <1>2. ASSUME NEW k \in Calls, Call(k) PROVE [Graceful!Next]_(Graceful!vars)
    <2>1. CASE Accepting
      <3>1. Proceed(k) /\ isReady /\ hasWorker /\ UNCHANGED <<isReady, hasWorker>>
        BY <1>2, <2>1 DEF Call, Accepting
      <3>2. channels' = channels \/ (k[1] = "request" /\ channels' = channels \cup {k[2]})
        BY <3>1, ProceedInFlight
      <3> QED  BY <1>1, <3>1, <3>2, CallsFacts
    <2>2. CASE ~Accepting
      BY <1>1, <1>2, <2>2 DEF Call
    <2> QED  BY <2>1, <2>2
  <1>3. ASSUME NEW k \in Calls, Cancel(k) PROVE [Graceful!Next]_(Graceful!vars)
    BY <1>1, <1>3, CallsFacts DEF Cancel, DropChannel
  <1>4. CASE Start
    <2>1. ~isReady /\ ~hasWorker /\ isReady' /\ channels' = channels
      BY <1>4 DEF Start
    <2> QED  BY <1>0, <2>1 DEF Graceful!Next, Graceful!Open, InFlight
  <1>5. CASE Signal
    <2>1. CASE readyTakers = <<>>
      BY <1>1, <1>5, <2>1 DEF Signal
    <2>2. CASE readyTakers # <<>>
      <3>1. Head(readyTakers) \in Calls /\ Proceed(Head(readyTakers))
        BY <1>5, <2>2, DequeueType DEF Signal, TypeOK
      <3>2. hasWorker /\ isReady /\ UNCHANGED <<isReady, hasWorker>>
        BY <1>5 DEF Signal, PhaseInv
      <3> QED  BY <1>1, <3>1, <3>2, ProceedInFlight, CallsFacts
    <2> QED  BY <2>1, <2>2
  <1>6. CASE Shutdown
    <2>1. isReady /\ ~isReady' /\ channels' = channels
      BY <1>6 DEF Shutdown
    <2>2. CASE NoneInFlight
      <3>1. channels = {} /\ ~hasWorker'
        BY <1>6, <2>2 DEF Shutdown, CloseWorker, NoneInFlight
      <3> QED  BY <1>0, <2>1, <3>1 DEF Graceful!Next, Graceful!Close, InFlight
    <2>3. CASE ~NoneInFlight
      <3>1. hasWorker' = hasWorker /\ hasWorker
        BY <1>6, <2>3 DEF Shutdown, PhaseInv
      <3> QED  BY <1>0, <2>1, <3>1 DEF Graceful!Next, Graceful!StopAccepting, InFlight
    <2> QED  BY <2>2, <2>3
  <1>7. CASE Drained
    <2>1. ~isReady /\ ~isReady' /\ hasWorker /\ ~hasWorker' /\ channels = {}
          /\ channels' = channels
      BY <1>7 DEF Drained, CloseWorker, NoneInFlight, PhaseInv
    <2> QED  BY <1>0, <2>1 DEF Graceful!Next, Graceful!Close, InFlight
  <1>8. CASE Broker
    <2>1. Head(toMain) \in ToMainMessages
      BY <1>8, DequeueType DEF Broker, TypeOK
    <2>2. \/ channels' = channels
          \/ Head(toMain).id \in Requests /\ channels' = channels \ {Head(toMain).id}
      BY <1>8, <2>1, MessageFacts DEF Broker, DropChannel, IsResponse
    <2> QED  BY <1>1, <1>8, <2>2 DEF Broker
  <1>9. CASE HandleWorkerMessage
    BY <1>1, <1>9 DEF HandleWorkerMessage
  <1>10. CASE WorkerReceive \/ \E r \in Requests : Ask(r) \/ Answer(r) \/ Fail(r)
    <2>1. UNCHANGED mainVars
      BY <1>10 DEF WorkerReceive, Ask, Answer, Fail
    <2> QED  BY <1>1, <2>1 DEF mainVars
  <1>11. CASE UNCHANGED vars
    BY <1>1, <1>11 DEF vars
  <1> QED
    BY <1>2, <1>3, <1>4, <1>5, <1>6, <1>7, <1>8, <1>9, <1>10, <1>11 DEF Next

\* The service accepts requests only while it is up, and terminates its worker
\* only once every accepted request has been answered or cancelled.
THEOREM ServiceIsGraceful == Spec => GracefulSpec
  <1>1. Init => Graceful!Init
    BY CallsFacts DEF Init, Graceful!Init
  <1>2. TypeOK /\ PhaseInv /\ (TypeOK /\ PhaseInv)' /\ [Next]_vars
          => [Graceful!Next]_(Graceful!vars)
    BY GracefulStep
  <1> QED  BY <1>1, <1>2, PhasesHold, PTL DEF Spec, GracefulSpec, Graceful!Spec

-----------------------------------------------------------------------------
(* Nothing is lost or duplicated between the two threads *)

In(s, m) == \E i \in DOMAIN s : s[i] = m
Once(s, m) == \A i, j \in DOMAIN s : s[i] = m /\ s[j] = m => i = j

LEMMA AppendIn ==
    ASSUME NEW S, NEW s \in Seq(S), NEW e \in S
    PROVE  \A m : /\ In(Append(s, e), m) <=> In(s, m) \/ m = e
                  /\ Once(s, m) /\ (m = e => ~In(s, m)) => Once(Append(s, e), m)
  <1>1. /\ Len(s) \in Nat /\ DOMAIN s = 1..Len(s)
        /\ Append(s, e) \in Seq(S) /\ Len(Append(s, e)) = Len(s) + 1
        /\ DOMAIN Append(s, e) = 1..(Len(s) + 1)
        /\ Append(s, e)[Len(s) + 1] = e /\ \A i \in 1..Len(s) : Append(s, e)[i] = s[i]
    BY AppendProperties
  <1>2. \A i \in 1..(Len(s) + 1) : i \in 1..Len(s) \/ i = Len(s) + 1
    BY <1>1
  <1>3. \A i \in 1..Len(s) : i \in 1..(Len(s) + 1)
    BY <1>1
  <1>4. Len(s) + 1 \in 1..(Len(s) + 1)
    BY <1>1
  <1> QED BY <1>1, <1>2, <1>3, <1>4 DEF In, Once

LEMMA TailIn ==
    ASSUME NEW S, NEW s \in Seq(S), s # <<>>
    PROVE  \A m : /\ In(s, m) <=> m = Head(s) \/ In(Tail(s), m)
                  /\ Once(s, m) => Once(Tail(s), m) /\ (m = Head(s) => ~In(Tail(s), m))
  <1>1. /\ Len(s) \in Nat /\ Len(s) >= 1 /\ DOMAIN s = 1..Len(s) /\ Head(s) = s[1]
        /\ Tail(s) \in Seq(S) /\ Len(Tail(s)) = Len(s) - 1 /\ DOMAIN Tail(s) = 1..(Len(s) - 1)
        /\ \A i \in 1..(Len(s) - 1) : Tail(s)[i] = s[i + 1]
    BY HeadTailProperties
  <1>2. \A i \in 1..(Len(s) - 1) : i + 1 \in 1..Len(s) /\ i + 1 # 1
    BY <1>1
  <1>3. \A i \in 1..Len(s) : i = 1 \/ (i - 1 \in 1..(Len(s) - 1) /\ (i - 1) + 1 = i)
    BY <1>1
  <1>4. ASSUME NEW m PROVE In(s, m) <=> m = Head(s) \/ In(Tail(s), m)
    <2>1. ASSUME In(s, m), m # Head(s) PROVE In(Tail(s), m)
      <3>1. PICK i \in 1..Len(s) : s[i] = m
        BY <1>1, <2>1 DEF In
      <3>2. i - 1 \in 1..(Len(s) - 1) /\ (i - 1) + 1 = i
        BY <1>1, <1>3, <2>1, <3>1
      <3>3. Tail(s)[i - 1] = m
        BY <1>1, <3>1, <3>2
      <3> QED BY <1>1, <3>2, <3>3 DEF In
    <2>2. 1 \in 1..Len(s)
      BY <1>1
    <2> QED BY <1>1, <1>2, <2>1, <2>2 DEF In
  <1>5. ASSUME NEW m, Once(s, m) PROVE Once(Tail(s), m) /\ (m = Head(s) => ~In(Tail(s), m))
    <2>1. \A i, j \in 1..(Len(s) - 1) : Tail(s)[i] = m /\ Tail(s)[j] = m => i + 1 = j + 1
      BY <1>1, <1>2, <1>5 DEF Once
    <2>2. \A i, j \in 1..(Len(s) - 1) : i + 1 = j + 1 => i = j
      BY <1>1
    <2>3. 1 \in 1..Len(s)
      BY <1>1
    <2> QED BY <1>1, <1>2, <1>5, <2>1, <2>2, <2>3 DEF Once, In
  <1> QED BY <1>4, <1>5

LEMMA RemoveIn ==
    ASSUME NEW S, NEW s \in Seq(S), NEW n \in 1..Len(s), NEW t,
           t = SubSeq(s, 1, n - 1) \o SubSeq(s, n + 1, Len(s))
    PROVE  \A m : /\ In(t, m) => In(s, m)
                  /\ Once(s, m) => Once(t, m) /\ (m = s[n] => ~In(t, m))
  <1>1. Len(s) \in Nat /\ DOMAIN s = 1..Len(s) /\ n \in Nat /\ 1 <= n /\ n <= Len(s)
    OBVIOUS
  <1>2. /\ SubSeq(s, 1, n - 1) \in Seq(S) /\ Len(SubSeq(s, 1, n - 1)) = n - 1
        /\ \A i \in 1..(n - 1) : SubSeq(s, 1, n - 1)[i] = s[i]
    BY <1>1
  <1>3. /\ SubSeq(s, n + 1, Len(s)) \in Seq(S) /\ Len(SubSeq(s, n + 1, Len(s))) = Len(s) - n
        /\ \A i \in 1..(Len(s) - n) : SubSeq(s, n + 1, Len(s))[i] = s[n + i]
    <2>1. n + 1 \in Int /\ Len(s) \in Int /\ \A i \in (n + 1)..Len(s) : s[i] \in S
      BY <1>1, LenProperties
    <2> DEFINE b == SubSeq(s, n + 1, Len(s))
    <2>2. /\ b \in Seq(S) /\ Len(b) = IF n + 1 <= Len(s) THEN Len(s) - (n + 1) + 1 ELSE 0
          /\ \A i \in 1..(Len(s) - (n + 1) + 1) : b[i] = s[n + 1 + i - 1]
      BY <2>1, SubSeqProperties
    <2> HIDE DEF b
    <2>3. Len(s) - (n + 1) + 1 = Len(s) - n /\ \A i \in Int : n + 1 + i - 1 = n + i
      BY <1>1
    <2>4. b \in Seq(S) /\ Len(b) = Len(s) - n
      <3>1. CASE n + 1 <= Len(s)
        <4>1. Len(b) = Len(s) - (n + 1) + 1
          BY <2>2, <3>1
        <4> QED BY <2>2, <2>3, <4>1
      <3>2. CASE ~(n + 1 <= Len(s))
        <4>1. Len(s) = n
          <5>1. \A x, y \in Nat : x <= y /\ ~(x + 1 <= y) => y = x
            OBVIOUS
          <5>2. n \in Nat /\ Len(s) \in Nat /\ n <= Len(s) /\ ~(n + 1 <= Len(s))
            BY <1>1, <3>2
          <5> QED BY <5>1, <5>2
        <4>2. Len(b) = 0
          BY <2>2, <3>2
        <4>3. Len(s) - n = 0
          BY <1>1, <4>1
        <4> QED BY <2>2, <4>2, <4>3
      <3> QED BY <3>1, <3>2
    <2>5. ASSUME NEW i \in 1..(Len(s) - n) PROVE b[i] = s[n + i]
      <3>1. i \in 1..(Len(s) - (n + 1) + 1) /\ i \in Int
        BY <2>3
      <3>2. b[i] = s[n + 1 + i - 1]
        BY <2>2, <3>1
      <3> QED BY <2>3, <3>1, <3>2
    <2> QED BY <2>4, <2>5 DEF b
  <1> DEFINE a == SubSeq(s, 1, n - 1)
             b == SubSeq(s, n + 1, Len(s))
  <1>a. /\ t = a \o b /\ a \in Seq(S) /\ b \in Seq(S) /\ Len(a) = n - 1 /\ Len(b) = Len(s) - n
        /\ \A i \in 1..(n - 1) : a[i] = s[i]
        /\ \A i \in 1..(Len(s) - n) : b[i] = s[n + i]
    BY <1>2, <1>3
  <1> HIDE DEF a, b
  <1>4. /\ DOMAIN t = 1..(Len(s) - 1)
        /\ \A i \in 1..(Len(s) - 1) : t[i] = IF i < n THEN s[i] ELSE s[i + 1]
    <2>1. t \in Seq(S) /\ Len(t) = Len(a) + Len(b)
      BY <1>a, ConcatProperties
    <2>2. \A i \in 1..(Len(a) + Len(b)) : t[i] = IF i <= Len(a) THEN a[i] ELSE b[i - Len(a)]
      <3>1. \A i \in 1..(Len(a) + Len(b)) :
                (a \o b)[i] = IF i <= Len(a) THEN a[i] ELSE b[i - Len(a)]
        <4>1. a \in Seq(S) /\ b \in Seq(S)
          BY <1>a
        <4> QED BY ONLY <4>1, ConcatProperties
      <3> QED BY <1>a, <3>1
    <2>a. Len(a) + Len(b) = Len(s) - 1
      BY <1>1, <1>a
    <2>3. ASSUME NEW i \in 1..(Len(s) - 1) PROVE t[i] = IF i < n THEN s[i] ELSE s[i + 1]
      <3>1. t[i] = IF i <= Len(a) THEN a[i] ELSE b[i - Len(a)]
        BY <2>2, <2>a
      <3>2. CASE i < n
        <4>1. i \in 1..(n - 1) /\ i <= n - 1
          BY <1>1, <3>2
        <4> QED BY <1>1, <1>a, <3>1, <3>2, <4>1
      <3>3. CASE ~(i < n)
        <4>1. i - (n - 1) \in 1..(Len(s) - n) /\ n + (i - (n - 1)) = i + 1 /\ ~(i <= n - 1)
          BY <1>1, <3>3
        <4> QED BY <1>a, <3>1, <3>3, <4>1
      <3> QED BY <3>2, <3>3
    <2>4. DOMAIN t = 1..(Len(s) - 1)
      BY <2>1, <2>a, LenProperties
    <2> QED BY <2>3, <2>4
  <1> DEFINE f == [i \in 1..(Len(s) - 1) |-> IF i < n THEN i ELSE i + 1]
  <1>5. \A i \in 1..(Len(s) - 1) : f[i] \in 1..Len(s) /\ f[i] # n
    BY <1>1
  <1>6. \A i, j \in 1..(Len(s) - 1) : f[i] = f[j] => i = j
    BY <1>1
  <1>7. \A i \in 1..(Len(s) - 1) : t[i] = s[f[i]]
    BY <1>4
  <1> HIDE DEF f
  <1>8. ASSUME NEW m, In(t, m) PROVE In(s, m)
    <2>1. PICK i \in 1..(Len(s) - 1) : t[i] = m
      BY <1>4, <1>8 DEF In
    <2>2. f[i] \in DOMAIN s /\ s[f[i]] = m
      BY <1>1, <1>5, <1>7, <2>1
    <2> QED BY <2>2 DEF In
  <1>9. ASSUME NEW m, Once(s, m) PROVE Once(t, m)
    <2> SUFFICES ASSUME NEW i \in 1..(Len(s) - 1), NEW j \in 1..(Len(s) - 1), t[i] = m, t[j] = m
                 PROVE  i = j
      BY <1>4 DEF Once
    <2>1. f[i] = f[j]
      BY <1>1, <1>5, <1>7, <1>9 DEF Once
    <2> QED BY <1>6, <2>1
  <1>10. ASSUME Once(s, s[n]), In(t, s[n]) PROVE FALSE
    <2>1. PICK i \in 1..(Len(s) - 1) : t[i] = s[n]
      BY <1>4, <1>10 DEF In
    <2>2. s[f[i]] = s[n] /\ f[i] \in DOMAIN s /\ n \in DOMAIN s
      BY <1>1, <1>5, <1>7, <2>1
    <2> QED BY <1>5, <1>10, <2>1, <2>2 DEF Once
  <1> QED BY <1>8, <1>9, <1>10

\* A message is its type and its id.
LEMMA MessagesDiffer ==
    /\ \A t, u, i, j : Msg(t, i) = Msg(u, j) <=> t = u /\ i = j
    /\ \A m \in ToWorkerMessages \cup ToMainMessages : m = Msg(m.type, m.id)
    /\ \A t, i : Msg(t, i).type = t /\ Msg(t, i).id = i
  <1>1. \A t, i : Msg(t, i).type = t /\ Msg(t, i).id = i
    BY DEF Msg
  <1>2. \A t, u, i, j : Msg(t, i) = Msg(u, j) <=> t = u /\ i = j
    BY <1>1
  <1>3. \A m \in ToWorkerMessages \cup ToMainMessages : m = Msg(m.type, m.id)
    BY DEF Msg, ToWorkerMessages, ToMainMessages, NestedRequests
  <1> QED BY <1>1, <1>2, <1>3

\* Where the caller, the wires and the handler of r are with a request.
RequestInv(r) ==
    /\ Once(toWorker, Msg("REQUEST", r)) /\ Once(toMain, Msg("RESPONSE", r))
    /\ In(toWorker, Msg("REQUEST", r)) => handler[r] = "none"
    /\ In(toMain, Msg("RESPONSE", r)) => handler[r] = "answered"
    /\ pc[<<"request", r>>] \in {"called", "waiting"} =>
          handler[r] = "none" /\ ~In(toWorker, Msg("REQUEST", r))
    /\ pc[<<"request", r>>] = "awaiting" =>
          \/ In(toWorker, Msg("REQUEST", r))
          \/ handler[r] \in {"running", "asking", "resumed", "failed"}
          \/ In(toMain, Msg("RESPONSE", r))

\* The same for the question of the handler of r to the main thread: its places
\* follow each other, and the handler asks as long as it is in one of them.
NestedInv(r) ==
    /\ Once(toMain, Msg("REQUEST", r)) /\ Once(listener, Msg("REQUEST", r))
    /\ Once(toWorker, Msg("RESPONSE", r))
    /\ handler[r] \in {"none", "running"} => pc[<<"respond", r>>] = "idle"
    /\ In(toMain, Msg("REQUEST", r)) =>
          /\ handler[r] = "asking" /\ pc[<<"respond", r>>] = "idle"
          /\ ~In(listener, Msg("REQUEST", r)) /\ ~In(toWorker, Msg("RESPONSE", r))
    /\ In(listener, Msg("REQUEST", r)) =>
          /\ handler[r] = "asking" /\ pc[<<"respond", r>>] = "idle"
          /\ ~In(toWorker, Msg("RESPONSE", r))
    /\ pc[<<"respond", r>>] \in {"called", "waiting"} =>
          handler[r] = "asking" /\ ~In(toWorker, Msg("RESPONSE", r))
    /\ In(toWorker, Msg("RESPONSE", r)) => handler[r] = "asking"
    /\ handler[r] = "asking" =>
          \/ In(toMain, Msg("REQUEST", r)) \/ In(listener, Msg("REQUEST", r))
          \/ pc[<<"respond", r>>] \in {"called", "waiting"} \/ In(toWorker, Msg("RESPONSE", r))

\* A call blocked in take(_readyChan) is there once.
TakersInv ==
    \A k \in Calls : Once(readyTakers, k) /\ (In(readyTakers, k) => pc[k] = "waiting")

WiresInv ==
    alive => /\ ~closed
             /\ \A r \in Requests : RequestInv(r)
             /\ \A r \in Nested : NestedInv(r)

LEMMA PostIn ==
    ASSUME TypeOK, alive, NEW m \in ToWorkerMessages, Post(m)
    PROVE  \A x : /\ In(toWorker', x) <=> In(toWorker, x) \/ x = m
                  /\ Once(toWorker, x) /\ (x = m => ~In(toWorker, x)) => Once(toWorker', x)
  BY AppendIn DEF Post, TypeOK

\* A call that goes on posts its message; it had not done so before.
LEMMA ProceedWires ==
    ASSUME TypeOK, PhaseInv, WiresInv, hasWorker, NEW k \in Calls, Proceed(k),
           pc[k] \in {"called", "waiting"},
           UNCHANGED <<alive, closed, toMain, listener, handler>>
    PROVE  WiresInv'
  <1> SUFFICES ASSUME alive PROVE WiresInv'
    BY DEF WiresInv
  <1>1. ~closed /\ (\A r \in Requests : RequestInv(r)) /\ (\A r \in Nested : NestedInv(r))
    BY DEF WiresInv
  <1>2. \A j \in Calls : pc'[j] = IF j = k THEN pc'[k] ELSE pc[j]
    BY DEF Proceed, TypeOK
  <1>3. CASE k[1] = "request"
    <2>1. k[2] \in Requests /\ k = <<"request", k[2]>> /\ pc'[k] = "awaiting"
      BY <1>3, CallsFacts DEF Proceed, TypeOK
    <2> DEFINE m == Msg("REQUEST", k[2])
    <2>2. m \in ToWorkerMessages /\ Post(m)
      BY <1>3, <2>1, MessageFacts DEF Proceed
    <2>3. \A x : /\ In(toWorker', x) <=> In(toWorker, x) \/ x = m
                 /\ Once(toWorker, x) /\ (x = m => ~In(toWorker, x)) => Once(toWorker', x)
      <3> HIDE DEF m
      <3> QED BY <2>2, PostIn
    <2>4. \A r \in Requests : /\ Msg("REQUEST", r) = m <=> r = k[2]
                              /\ Msg("RESPONSE", r) # m
      BY MessagesDiffer
    <2>5. \A r \in Nested : r \in Requests
      BY WorkerAssumption
    <2> HIDE DEF m
    <2>6. ASSUME NEW r \in Requests PROVE RequestInv(r)'
      <3>1. RequestInv(r) /\ <<"request", r>> \in Calls
        BY <1>1, CallsFacts
      <3>2. CASE r = k[2]
        BY <1>2, <2>1, <2>3, <2>4, <3>1, <3>2 DEF RequestInv
      <3>3. CASE r # k[2]
        <4>1. pc'[<<"request", r>>] = pc[<<"request", r>>]
          BY <1>2, <2>1, <3>1, <3>3
        <4>2. Msg("REQUEST", r) # m /\ (In(toWorker', Msg("REQUEST", r)) <=> In(toWorker, Msg("REQUEST", r)))
          BY <2>3, <2>4, <3>3
        <4> QED BY <2>3, <3>1, <4>1, <4>2 DEF RequestInv
      <3> QED BY <3>2, <3>3
    <2>7. ASSUME NEW r \in Nested PROVE NestedInv(r)'
      <3>1. NestedInv(r) /\ <<"respond", r>> \in Calls /\ <<"respond", r>> # k
        BY <1>1, <2>1, CallsFacts
      <3>2. pc'[<<"respond", r>>] = pc[<<"respond", r>>]
        BY <1>2, <3>1
      <3> QED BY <2>3, <2>4, <2>5, <3>1, <3>2 DEF NestedInv
    <2> QED BY <1>1, <2>6, <2>7 DEF WiresInv
  <1>4. CASE k[1] = "respond"
    <2>1. k[2] \in Nested /\ k = <<"respond", k[2]>> /\ pc'[k] = "done"
      BY <1>4, CallsFacts DEF Proceed, TypeOK
    <2> DEFINE m == Msg("RESPONSE", k[2])
    <2>2. m \in ToWorkerMessages /\ Post(m)
      BY <1>4, <2>1, MessageFacts DEF Proceed
    <2>3. \A x : /\ In(toWorker', x) <=> In(toWorker, x) \/ x = m
                 /\ Once(toWorker, x) /\ (x = m => ~In(toWorker, x)) => Once(toWorker', x)
      <3> HIDE DEF m
      <3> QED BY <2>2, PostIn
    <2>4. \A r : /\ Msg("RESPONSE", r) = m <=> r = k[2]
                 /\ Msg("REQUEST", r) # m
      BY MessagesDiffer
    <2> HIDE DEF m
    <2>6. ASSUME NEW r \in Requests PROVE RequestInv(r)'
      <3>1. RequestInv(r) /\ <<"request", r>> \in Calls /\ <<"request", r>> # k
        BY <1>1, <2>1, CallsFacts
      <3>2. pc'[<<"request", r>>] = pc[<<"request", r>>]
        BY <1>2, <3>1
      <3> QED BY <2>3, <2>4, <3>1, <3>2 DEF RequestInv
    <2>7. ASSUME NEW r \in Nested PROVE NestedInv(r)'
      <3>1. NestedInv(r) /\ <<"respond", r>> \in Calls
        BY <1>1, CallsFacts
      <3>2. CASE r = k[2]
        BY <1>2, <2>1, <2>3, <2>4, <3>1, <3>2 DEF NestedInv
      <3>3. CASE r # k[2]
        <4>1. pc'[<<"respond", r>>] = pc[<<"respond", r>>]
          BY <1>2, <2>1, <3>1, <3>3
        <4>2. In(toWorker', Msg("RESPONSE", r)) <=> In(toWorker, Msg("RESPONSE", r))
          BY <2>3, <2>4, <3>3
        <4>3. Once(toWorker, Msg("RESPONSE", r)) => Once(toWorker', Msg("RESPONSE", r))
          BY <2>3, <2>4, <3>3
        <4> QED BY <3>1, <4>1, <4>2, <4>3 DEF NestedInv
      <3> QED BY <3>2, <3>3
    <2> QED BY <1>1, <2>6, <2>7 DEF WiresInv
  <1>5. CASE k[1] = "ping"
    <2>1. k[2] \in Pings /\ k = <<"ping", k[2]>>
      BY <1>5, CallsFacts
    <2> DEFINE m == Msg("DEFAULT", k[2])
    <2>2. m \in ToWorkerMessages /\ Post(m)
      BY <1>5, <2>1, MessageFacts DEF Proceed
    <2>3. \A x : /\ In(toWorker', x) <=> In(toWorker, x) \/ x = m
                 /\ Once(toWorker, x) /\ (x = m => ~In(toWorker, x)) => Once(toWorker', x)
      <3> HIDE DEF m
      <3> QED BY <2>2, PostIn
    <2>4. \A r : Msg("RESPONSE", r) # m /\ Msg("REQUEST", r) # m
      BY MessagesDiffer
    <2> HIDE DEF m
    <2>5. /\ \A r \in Requests : pc'[<<"request", r>>] = pc[<<"request", r>>]
          /\ \A r \in Nested : pc'[<<"respond", r>>] = pc[<<"respond", r>>]
      BY <1>2, <2>1, CallsFacts
    <2>6. ASSUME NEW r \in Requests PROVE RequestInv(r)'
      BY <1>1, <2>3, <2>4, <2>5 DEF RequestInv
    <2>7. ASSUME NEW r \in Nested PROVE NestedInv(r)'
      BY <1>1, <2>3, <2>4, <2>5 DEF NestedInv
    <2> QED BY <1>1, <2>6, <2>7 DEF WiresInv
  <1> QED BY <1>3, <1>4, <1>5, CallsFacts

\* A question that arrived on the main thread is not being answered yet, also
\* after the worker is gone.
ListenerInv ==
    /\ closed <=> ~alive
    /\ \A r \in Nested : /\ Once(listener, Msg("REQUEST", r))
                         /\ In(listener, Msg("REQUEST", r)) => pc[<<"respond", r>>] = "idle"

\* A handler that is spawned for a message takes the oldest one.
LEMMA HandledMessage ==
    ASSUME TypeOK, HandleWorkerMessage
    PROVE  \E r \in Nested :
              /\ Head(listener) = Msg("REQUEST", r) /\ <<"respond", r>> \in Calls
              /\ pc' = [pc EXCEPT ![<<"respond", r>>] = "called"]
              /\ \A m : /\ In(listener, m) <=> m = Msg("REQUEST", r) \/ In(listener', m)
                        /\ Once(listener, m) =>
                              Once(listener', m) /\ (m = Msg("REQUEST", r) => ~In(listener', m))
  <1>1. listener \in Seq(NestedRequests) /\ listener # <<>> /\ listener' = Tail(listener)
    BY DEF TypeOK, HandleWorkerMessage
  <1>2. Head(listener) \in NestedRequests
    BY <1>1, DequeueType
  <1> DEFINE r == Head(listener).id
  <1>3. r \in Nested /\ Head(listener) = Msg("REQUEST", r)
    BY <1>2 DEF NestedRequests, Msg
  <1>4. <<"respond", r>> \in Calls /\ pc' = [pc EXCEPT ![<<"respond", r>>] = "called"]
    BY <1>3, CallsFacts DEF HandleWorkerMessage
  <1>5. \A m : /\ In(listener, m) <=> m = Head(listener) \/ In(listener', m)
               /\ Once(listener, m) =>
                     Once(listener', m) /\ (m = Head(listener) => ~In(listener', m))
    BY <1>1, TailIn
  <1> HIDE DEF r
  <1> QED BY <1>3, <1>4, <1>5

\* Where a call is in _readyChan, it is the only one that leaves or enters.
LEMMA TakersStep ==
    ASSUME TypeOK, PhaseInv, TakersInv, ListenerInv, [Next]_vars
    PROVE  TakersInv'
  <1>0. readyTakers \in Seq(Calls)
    BY DEF TypeOK
  <1>1. ASSUME NEW k \in Calls, Call(k) PROVE TakersInv'
    <2>0. pc[k] = "called" /\ ~In(readyTakers, k)
      BY <1>1 DEF Call, TakersInv
    <2>1. CASE Accepting
      <3>1. readyTakers' = readyTakers /\ \A j \in Calls : j # k => pc'[j] = pc[j]
        BY <1>1, <2>1 DEF Call, Proceed, TypeOK
      <3> QED BY <2>0, <3>1 DEF TakersInv
    <2>2. CASE ~Accepting
      <3>1. readyTakers' = Append(readyTakers, k) /\ pc' = [pc EXCEPT ![k] = "waiting"]
        BY <1>1, <2>2 DEF Call
      <3>2. \A m : /\ In(readyTakers', m) <=> In(readyTakers, m) \/ m = k
                   /\ Once(readyTakers, m) /\ (m = k => ~In(readyTakers, m)) => Once(readyTakers', m)
        BY <1>0, <3>1, AppendIn
      <3> QED BY <2>0, <3>1, <3>2 DEF TakersInv, TypeOK
    <2> QED BY <2>1, <2>2
  <1>2. ASSUME NEW k \in Calls, Cancel(k) PROVE TakersInv'
    <2>0. \A j \in Calls : pc'[j] = IF j = k THEN "cancelled" ELSE pc[j]
      BY <1>2 DEF Cancel, TypeOK
    <2>1. CASE pc[k] # "waiting"
      <3>1. readyTakers' = readyTakers /\ ~In(readyTakers, k)
        BY <1>2, <2>1 DEF Cancel, TakersInv
      <3> QED BY <2>0, <3>1 DEF TakersInv
    <2>2. CASE pc[k] = "waiting"
      <3>1. PICK i \in 1..Len(readyTakers) :
                /\ readyTakers[i] = k
                /\ readyTakers' = SubSeq(readyTakers, 1, i - 1)
                                     \o SubSeq(readyTakers, i + 1, Len(readyTakers))
        BY <1>2, <2>2 DEF Cancel
      <3>2. \A m : /\ In(readyTakers', m) => In(readyTakers, m)
                   /\ Once(readyTakers, m) =>
                         Once(readyTakers', m) /\ (m = readyTakers[i] => ~In(readyTakers', m))
        <4>1. \A t : t = SubSeq(readyTakers, 1, i - 1)
                            \o SubSeq(readyTakers, i + 1, Len(readyTakers))
                  => \A m : /\ In(t, m) => In(readyTakers, m)
                            /\ Once(readyTakers, m) =>
                                  Once(t, m) /\ (m = readyTakers[i] => ~In(t, m))
          BY <1>0, RemoveIn
        <4> QED BY <3>1, <4>1
      <3> QED BY <2>0, <3>1, <3>2 DEF TakersInv
    <2> QED BY <2>1, <2>2
  <1>3. CASE Signal
    <2>1. CASE readyTakers = <<>>
      BY <1>3, <2>1 DEF Signal, TakersInv
    <2>2. CASE readyTakers # <<>>
      <3>1. Proceed(Head(readyTakers)) /\ readyTakers' = Tail(readyTakers)
        BY <1>3, <2>2 DEF Signal
      <3>2. \A m : /\ In(readyTakers, m) <=> m = Head(readyTakers) \/ In(readyTakers', m)
                   /\ Once(readyTakers, m) =>
                         Once(readyTakers', m) /\ (m = Head(readyTakers) => ~In(readyTakers', m))
        BY <1>0, <2>2, <3>1, TailIn
      <3>3. \A j \in Calls : j # Head(readyTakers) => pc'[j] = pc[j]
        BY <3>1 DEF Proceed, TypeOK
      <3> QED BY <3>2, <3>3 DEF TakersInv
    <2> QED BY <2>1, <2>2
  <1>4. CASE Broker
    <2>1. Head(toMain) \in ToMainMessages /\ readyTakers' = readyTakers
      BY <1>4, DequeueType DEF Broker, TypeOK
    <2>2. CASE IsResponse(Head(toMain)) /\ HasChannel(Head(toMain).id)
      <3>1. Head(toMain).id \in Requests
        BY <2>1, <2>2, MessageFacts DEF IsResponse
      <3>2. <<"request", Head(toMain).id>> \in Calls /\ pc[<<"request", Head(toMain).id>>] = "awaiting"
        BY <2>2, <3>1, CallsFacts DEF PhaseInv, InFlight, HasChannel
      <3>3. pc' = [pc EXCEPT ![<<"request", Head(toMain).id>>] = "done"]
        BY <1>4, <2>2 DEF Broker
      <3> QED BY <2>1, <3>2, <3>3 DEF TakersInv, TypeOK
    <2>3. CASE ~(IsResponse(Head(toMain)) /\ HasChannel(Head(toMain).id))
      <3>1. pc' = pc
        BY <1>4, <2>3 DEF Broker
      <3> QED BY <2>1, <3>1 DEF TakersInv
    <2> QED BY <2>2, <2>3
  <1>5. CASE Start \/ Shutdown \/ Drained \/ UNCHANGED vars
    BY <1>5 DEF Start, Shutdown, Drained, vars, TakersInv
  <1>6. CASE WorkerReceive \/ \E r \in Requests : Ask(r) \/ Answer(r) \/ Fail(r)
    BY <1>6 DEF WorkerReceive, Ask, Answer, Fail, mainVars, TakersInv
  <1>7. CASE HandleWorkerMessage
    <2>1. PICK r \in Nested :
              /\ In(listener, Msg("REQUEST", r)) /\ <<"respond", r>> \in Calls
              /\ pc' = [pc EXCEPT ![<<"respond", r>>] = "called"]
      BY <1>7, HandledMessage
    <2>2. pc[<<"respond", r>>] = "idle" /\ readyTakers' = readyTakers
      BY <1>7, <2>1 DEF ListenerInv, HandleWorkerMessage
    <2> QED BY <2>1, <2>2 DEF TakersInv, TypeOK
  <1> QED BY <1>1, <1>2, <1>3, <1>4, <1>5, <1>6, <1>7 DEF Next

\* The broker takes the oldest message: a response for the caller that waits
\* for it, or a question for the listener.
LEMMA BrokerTakes ==
    ASSUME TypeOK, PhaseInv, Broker
    PROVE  \E m \in ToMainMessages :
              /\ \A x : /\ In(toMain, x) <=> x = m \/ In(toMain', x)
                        /\ Once(toMain, x) =>
                              Once(toMain', x) /\ (x = m => ~In(toMain', x))
              /\ m = Msg(m.type, m.id)
              /\ \/ /\ m.type = "RESPONSE" /\ m.id \in Requests /\ listener' = listener
                    /\ pc[<<"request", m.id>>] # "awaiting" => pc' = pc
                    /\ pc' # pc => pc' = [pc EXCEPT ![<<"request", m.id>>] = "done"]
                    /\ pc'[<<"request", m.id>>] # "awaiting"
                 \/ /\ m.type = "REQUEST" /\ m.id \in Nested /\ pc' = pc
                    /\ closed => listener' = listener
                    /\ ~closed => \A x : /\ In(listener', x) <=> In(listener, x) \/ x = m
                                         /\ Once(listener, x) /\ (x = m => ~In(listener, x))
                                               => Once(listener', x)
  <1> DEFINE m == Head(toMain)
  <1>1. toMain \in Seq(ToMainMessages) /\ toMain # <<>> /\ toMain' = Tail(toMain)
    BY DEF TypeOK, Broker
  <1>2. m \in ToMainMessages
    BY <1>1, DequeueType
  <1>3. \A x : /\ In(toMain, x) <=> x = m \/ In(toMain', x)
               /\ Once(toMain, x) => Once(toMain', x) /\ (x = m => ~In(toMain', x))
    BY <1>1, TailIn
  <1>4. CASE m.type = "RESPONSE"
    <2>1. m.id \in Requests /\ <<"request", m.id>> \in Calls
      BY <1>2, <1>4, MessageFacts, CallsFacts
    <2>2. /\ HasChannel(m.id) <=> pc[<<"request", m.id>>] = "awaiting"
          /\ listener' = listener
          /\ pc' = IF HasChannel(m.id) THEN [pc EXCEPT ![<<"request", m.id>>] = "done"] ELSE pc
      BY <1>4, <2>1 DEF Broker, IsResponse, HasChannel, PhaseInv, InFlight
    <2> HIDE DEF m
    <2>3. /\ pc[<<"request", m.id>>] # "awaiting" => pc' = pc
          /\ pc' # pc => pc' = [pc EXCEPT ![<<"request", m.id>>] = "done"]
          /\ pc'[<<"request", m.id>>] # "awaiting"
      BY <2>1, <2>2 DEF TypeOK
    <2>4. m = Msg(m.type, m.id)
      BY <1>2, MessagesDiffer
    <2> QED BY <1>2, <1>3, <1>4, <2>1, <2>2, <2>3, <2>4
  <1>5. CASE m.type # "RESPONSE"
    <2>1. m.type = "REQUEST" /\ m.id \in Nested /\ m \in NestedRequests
      BY <1>2, <1>5, MessageFacts
    <2>2. pc' = pc /\ listener' = IF closed THEN listener ELSE Append(listener, m)
      BY <1>5 DEF Broker, IsResponse
    <2>3. listener \in Seq(NestedRequests)
      BY DEF TypeOK
    <2> HIDE DEF m
    <2>4. ~closed => \A x : /\ In(listener', x) <=> In(listener, x) \/ x = m
                            /\ Once(listener, x) /\ (x = m => ~In(listener, x))
                                  => Once(listener', x)
      BY <2>1, <2>2, <2>3, AppendIn
    <2> QED BY <1>2, <1>3, <1>5, <2>1, <2>2, <2>4, MessagesDiffer
  <1> QED BY <1>4, <1>5

LEMMA ListenerStep ==
    ASSUME TypeOK, PhaseInv, TakersInv, ListenerInv, WiresInv, [Next]_vars
    PROVE  ListenerInv'
  <1>1. ASSUME NEW k \in Calls, pc[k] \in {"called", "waiting", "awaiting"},
               \A j \in Calls : j # k => pc'[j] = pc[j], UNCHANGED <<closed, alive, listener>>
        PROVE ListenerInv'
    <2>1. ASSUME NEW r \in Nested, In(listener, Msg("REQUEST", r))
          PROVE  pc'[<<"respond", r>>] = "idle"
      <3>1. pc[<<"respond", r>>] = "idle" /\ <<"respond", r>> \in Calls
        BY <2>1, CallsFacts DEF ListenerInv
      <3> QED BY <1>1, <3>1
    <2> QED BY <1>1, <2>1 DEF ListenerInv
  <1>2. ASSUME NEW k \in Calls, Call(k) PROVE ListenerInv'
    <2>1. \A j \in Calls : j # k => pc'[j] = pc[j]
      BY <1>2 DEF Call, Proceed, TypeOK
    <2> QED BY <1>1, <1>2, <2>1 DEF Call, workerVars
  <1>3. ASSUME NEW k \in Calls, Cancel(k) PROVE ListenerInv'
    <2>1. \A j \in Calls : j # k => pc'[j] = pc[j]
      BY <1>3 DEF Cancel, TypeOK
    <2> QED BY <1>1, <1>3, <2>1 DEF Cancel, workerVars
  <1>4. CASE Signal
    <2>1. CASE readyTakers = <<>>
      BY <1>4, <2>1 DEF Signal, ListenerInv, workerVars
    <2>2. CASE readyTakers # <<>>
      <3>1. Head(readyTakers) \in Calls /\ In(readyTakers, Head(readyTakers))
        BY <2>2, DequeueType, TailIn DEF TypeOK
      <3>2. \A j \in Calls : j # Head(readyTakers) => pc'[j] = pc[j]
        BY <1>4, <2>2 DEF Signal, Proceed, TypeOK
      <3>3. pc[Head(readyTakers)] = "waiting"
        BY <3>1 DEF TakersInv
      <3> QED BY <1>1, <1>4, <3>1, <3>2, <3>3 DEF Signal, workerVars
    <2> QED BY <2>1, <2>2
  <1>5. CASE Broker
    <2>1. PICK m \in ToMainMessages :
              /\ In(toMain, m)
              /\ m = Msg(m.type, m.id)
              /\ \/ /\ m.id \in Requests /\ listener' = listener
                    /\ pc' # pc => pc' = [pc EXCEPT ![<<"request", m.id>>] = "done"]
                 \/ /\ m.type = "REQUEST" /\ m.id \in Nested /\ pc' = pc
                    /\ closed => listener' = listener
                    /\ ~closed => \A x : /\ In(listener', x) <=> In(listener, x) \/ x = m
                                         /\ Once(listener, x) /\ (x = m => ~In(listener, x))
                                               => Once(listener', x)
      BY <1>5, BrokerTakes
    <2>2. closed' = closed /\ alive' = alive
      BY <1>5 DEF Broker, workerVars
    <2>3. CASE m.id \in Requests /\ listener' = listener
               /\ (pc' # pc => pc' = [pc EXCEPT ![<<"request", m.id>>] = "done"])
      <3>1. \A r \in Nested : pc'[<<"respond", r>>] = pc[<<"respond", r>>]
        BY <2>3, CallsFacts DEF TypeOK
      <3> QED BY <2>2, <2>3, <3>1 DEF ListenerInv
    <2>4. CASE pc' = pc /\ listener' = listener
      BY <2>2, <2>4 DEF ListenerInv
    <2>5. CASE /\ m.type = "REQUEST" /\ m.id \in Nested /\ pc' = pc /\ ~closed
               /\ \A x : /\ In(listener', x) <=> In(listener, x) \/ x = m
                         /\ Once(listener, x) /\ (x = m => ~In(listener, x)) => Once(listener', x)
      <3>1. /\ pc[<<"respond", m.id>>] = "idle" /\ ~In(listener, m)
        BY <2>1, <2>5 DEF ListenerInv, WiresInv, NestedInv
      <3>2. \A r \in Nested : Msg("REQUEST", r) = m <=> r = m.id
        BY <2>1, <2>5, MessagesDiffer
      <3> QED BY <2>2, <2>5, <3>1, <3>2 DEF ListenerInv
    <2> QED BY <2>1, <2>3, <2>4, <2>5
  <1>6. CASE HandleWorkerMessage
    <2>1. PICK r \in Nested :
              /\ <<"respond", r>> \in Calls
              /\ pc' = [pc EXCEPT ![<<"respond", r>>] = "called"]
              /\ \A m : /\ In(listener, m) <=> m = Msg("REQUEST", r) \/ In(listener', m)
                        /\ Once(listener, m) =>
                              Once(listener', m) /\ (m = Msg("REQUEST", r) => ~In(listener', m))
      BY <1>6, HandledMessage
    <2>2. \A j \in Calls : j # <<"respond", r>> => pc'[j] = pc[j]
      BY <2>1 DEF TypeOK
    <2>3. \A x \in Nested : <<"respond", x>> \in Calls /\ (<<"respond", x>> = <<"respond", r>> => x = r)
      BY CallsFacts
    <2> QED BY <1>6, <2>1, <2>2, <2>3 DEF ListenerInv, HandleWorkerMessage, workerVars
  <1>7. CASE Shutdown \/ Drained
    BY <1>7 DEF Shutdown, Drained, CloseWorker, ListenerInv
  <1>8. CASE Start \/ WorkerReceive \/ (\E r \in Requests : Ask(r) \/ Answer(r) \/ Fail(r))
             \/ UNCHANGED vars
    BY <1>8 DEF Start, WorkerReceive, Ask, Answer, Fail, mainVars, workerVars, vars, ListenerInv
  <1> QED BY <1>2, <1>3, <1>4, <1>5, <1>6, <1>7, <1>8 DEF Next

\* The worker takes the oldest message.
LEMMA WorkerTakes ==
    ASSUME TypeOK, WorkerReceive
    PROVE  \E m \in ToWorkerMessages :
              /\ \A x : /\ In(toWorker, x) <=> x = m \/ In(toWorker', x)
                        /\ Once(toWorker, x) =>
                              Once(toWorker', x) /\ (x = m => ~In(toWorker', x))
              /\ m = Msg(m.type, m.id)
              /\ handler' = IF m.type = "REQUEST"
                            THEN [handler EXCEPT ![m.id] = "running"]
                            ELSE IF m.type = "RESPONSE" /\ handler[m.id] = "asking"
                            THEN [handler EXCEPT ![m.id] = "resumed"]
                            ELSE handler
  <1> DEFINE m == Head(toWorker)
  <1>1. toWorker \in Seq(ToWorkerMessages) /\ toWorker # <<>> /\ toWorker' = Tail(toWorker)
    BY DEF TypeOK, WorkerReceive
  <1>2. m \in ToWorkerMessages
    BY <1>1, DequeueType
  <1>3. \A x : /\ In(toWorker, x) <=> x = m \/ In(toWorker', x)
               /\ Once(toWorker, x) => Once(toWorker', x) /\ (x = m => ~In(toWorker', x))
    BY <1>1, TailIn
  <1>4. m = Msg(m.type, m.id)
    BY <1>2, MessagesDiffer
  <1>5. handler' = IF m.type = "REQUEST"
                   THEN [handler EXCEPT ![m.id] = "running"]
                   ELSE IF m.type = "RESPONSE" /\ handler[m.id] = "asking"
                   THEN [handler EXCEPT ![m.id] = "resumed"]
                   ELSE handler
    BY DEF WorkerReceive
  <1> HIDE DEF m
  <1> QED BY <1>2, <1>3, <1>4, <1>5

LEMMA WorkerReceiveWires ==
    ASSUME TypeOK, WiresInv, alive, WorkerReceive
    PROVE  WiresInv'
  <1>1. PICK m \in ToWorkerMessages :
              /\ \A x : /\ In(toWorker, x) <=> x = m \/ In(toWorker', x)
                        /\ Once(toWorker, x) =>
                              Once(toWorker', x) /\ (x = m => ~In(toWorker', x))
              /\ m = Msg(m.type, m.id)
              /\ handler' = IF m.type = "REQUEST"
                            THEN [handler EXCEPT ![m.id] = "running"]
                            ELSE IF m.type = "RESPONSE" /\ handler[m.id] = "asking"
                            THEN [handler EXCEPT ![m.id] = "resumed"]
                            ELSE handler
    BY WorkerTakes
  <1>2. UNCHANGED <<alive, closed, toMain, listener, pc>>
    BY DEF WorkerReceive, mainVars
  <1>3. ~closed /\ (\A r \in Requests : RequestInv(r)) /\ (\A r \in Nested : NestedInv(r))
    BY DEF WiresInv
  <1>4. /\ \A r : Msg("REQUEST", r) = m <=> m.type = "REQUEST" /\ m.id = r
        /\ \A r : Msg("RESPONSE", r) = m <=> m.type = "RESPONSE" /\ m.id = r
    BY <1>1, MessagesDiffer
  <1>5. \A r \in Nested : r \in Requests
    BY WorkerAssumption
  <1>6. \/ m.type = "REQUEST" /\ m.id \in Requests
        \/ m.type = "RESPONSE" /\ m.id \in Nested
        \/ m.type = "DEFAULT"
    BY MessageFacts
  <1>7. \A r \in Requests : r # m.id \/ m.type = "DEFAULT" => handler'[r] = handler[r]
    BY <1>1 DEF TypeOK
  <1>8. ASSUME NEW r \in Requests PROVE RequestInv(r)'
    <2>1. CASE m.type = "REQUEST" /\ m.id = r
      <3>1. handler'[r] = "running"
        BY <1>1, <2>1 DEF TypeOK
      <3>2. In(toWorker, Msg("REQUEST", r)) /\ ~In(toWorker', Msg("REQUEST", r))
        BY <1>1, <1>3, <1>4, <2>1 DEF RequestInv
      <3> QED BY <1>1, <1>2, <1>3, <3>1, <3>2 DEF RequestInv
    <2>2. CASE m.type = "RESPONSE" /\ m.id = r
      <3>1. In(toWorker, m) /\ handler[r] = "asking"
        BY <1>1, <1>3, <1>4, <1>6, <2>2 DEF NestedInv
      <3>2. handler'[r] = "resumed"
        BY <1>1, <2>2, <3>1 DEF TypeOK
      <3>3. m # Msg("REQUEST", r)
        BY <1>4, <2>2
      <3> QED BY <1>1, <1>2, <1>3, <3>1, <3>2, <3>3 DEF RequestInv
    <2>3. CASE m.id # r \/ m.type = "DEFAULT"
      <3>1. handler'[r] = handler[r] /\ Msg("REQUEST", r) # m
        BY <1>4, <1>7, <2>3
      <3> QED BY <1>1, <1>2, <1>3, <3>1 DEF RequestInv
    <2> QED BY <1>6, <2>1, <2>2, <2>3
  <1>9. ASSUME NEW r \in Nested PROVE NestedInv(r)'
    <2>1. CASE m.type = "REQUEST" /\ m.id = r
      <3>1. handler'[r] = "running" /\ handler[r] = "none"
        BY <1>1, <1>3, <1>4, <1>5, <2>1 DEF TypeOK, RequestInv
      <3>2. m # Msg("RESPONSE", r)
        BY <1>4, <2>1
      <3> QED BY <1>1, <1>2, <1>3, <3>1, <3>2 DEF NestedInv
    <2>2. CASE m.type = "RESPONSE" /\ m.id = r
      <3>1. m = Msg("RESPONSE", r) /\ In(toWorker, m) /\ ~In(toWorker', m) /\ handler[r] = "asking"
        BY <1>1, <1>3, <1>4, <2>2 DEF NestedInv
      <3>2. handler'[r] = "resumed"
        BY <1>1, <1>5, <2>2, <3>1 DEF TypeOK
      <3>3. NestedInv(r)
        BY <1>3
      <3> QED BY <1>1, <1>2, <3>1, <3>2, <3>3 DEF NestedInv
    <2>3. CASE m.id # r \/ m.type = "DEFAULT"
      <3>1. handler'[r] = handler[r] /\ Msg("RESPONSE", r) # m
        BY <1>4, <1>5, <1>7, <2>3
      <3> QED BY <1>1, <1>2, <1>3, <3>1 DEF NestedInv
    <2> QED BY <1>6, <2>1, <2>2, <2>3
  <1> QED BY <1>2, <1>3, <1>8, <1>9 DEF WiresInv

LEMMA BrokerWires ==
    ASSUME TypeOK, PhaseInv, WiresInv, alive, Broker
    PROVE  WiresInv'
  <1>1. PICK m \in ToMainMessages :
              /\ \A x : /\ In(toMain, x) <=> x = m \/ In(toMain', x)
                        /\ Once(toMain, x) =>
                              Once(toMain', x) /\ (x = m => ~In(toMain', x))
              /\ m = Msg(m.type, m.id)
              /\ \/ /\ m.type = "RESPONSE" /\ m.id \in Requests /\ listener' = listener
                    /\ pc[<<"request", m.id>>] # "awaiting" => pc' = pc
                    /\ pc' # pc => pc' = [pc EXCEPT ![<<"request", m.id>>] = "done"]
                    /\ pc'[<<"request", m.id>>] # "awaiting"
                 \/ /\ m.type = "REQUEST" /\ m.id \in Nested /\ pc' = pc
                    /\ closed => listener' = listener
                    /\ ~closed => \A x : /\ In(listener', x) <=> In(listener, x) \/ x = m
                                         /\ Once(listener, x) /\ (x = m => ~In(listener, x))
                                               => Once(listener', x)
    BY BrokerTakes
  <1>2. UNCHANGED <<alive, closed, toWorker, handler>>
    BY DEF Broker, workerVars
  <1>3. ~closed /\ (\A r \in Requests : RequestInv(r)) /\ (\A r \in Nested : NestedInv(r))
    BY DEF WiresInv
  <1>4. /\ \A r : Msg("REQUEST", r) = m <=> m.type = "REQUEST" /\ m.id = r
        /\ \A r : Msg("RESPONSE", r) = m <=> m.type = "RESPONSE" /\ m.id = r
    BY <1>1, MessagesDiffer
  <1>5. CASE m.type = "RESPONSE"
    <2>1. /\ m.id \in Requests /\ listener' = listener
          /\ \A r \in Requests :
                \/ pc'[<<"request", r>>] = pc[<<"request", r>>]
                \/ pc'[<<"request", r>>] = "done"
          /\ pc'[<<"request", m.id>>] # "awaiting"
          /\ \A r \in Nested : pc'[<<"respond", r>>] = pc[<<"respond", r>>]
      BY <1>1, <1>5, CallsFacts DEF TypeOK
    <2>2. ASSUME NEW r \in Requests PROVE RequestInv(r)'
      <3>1. CASE r = m.id
        BY <1>1, <1>2, <1>3, <1>4, <2>1, <3>1 DEF RequestInv
      <3>2. CASE r # m.id
        BY <1>1, <1>2, <1>3, <1>4, <2>1, <3>2 DEF RequestInv
      <3> QED BY <3>1, <3>2
    <2>3. ASSUME NEW r \in Nested PROVE NestedInv(r)'
      <3>1. Msg("REQUEST", r) # m
        BY <1>4, <1>5
      <3> QED BY <1>1, <1>2, <1>3, <2>1, <3>1 DEF NestedInv
    <2> QED BY <1>2, <1>3, <2>2, <2>3 DEF WiresInv
  <1>6. CASE m.type = "REQUEST"
    <2>1. /\ m.id \in Nested /\ pc' = pc
          /\ \A x : /\ In(listener', x) <=> In(listener, x) \/ x = m
                    /\ Once(listener, x) /\ (x = m => ~In(listener, x)) => Once(listener', x)
      BY <1>1, <1>3, <1>6
    <2>2. ASSUME NEW r \in Requests PROVE RequestInv(r)'
      <3>1. Msg("RESPONSE", r) # m
        BY <1>4, <1>6
      <3> QED BY <1>1, <1>2, <1>3, <2>1, <3>1 DEF RequestInv
    <2>3. ASSUME NEW r \in Nested PROVE NestedInv(r)'
      <3>0. NestedInv(r)
        BY <1>3
      <3>1. CASE r = m.id
        <4>1. Msg("REQUEST", r) = m
          BY <1>4, <1>6, <3>1
        <4>2. In(toMain, m) /\ ~In(toMain', m) /\ In(listener', m) /\ ~In(listener, m)
          BY <1>1, <2>1, <3>0, <4>1 DEF NestedInv
        <4> QED BY <1>1, <1>2, <2>1, <3>0, <4>1, <4>2 DEF NestedInv
      <3>2. CASE r # m.id
        <4>1. Msg("REQUEST", r) # m
          BY <1>4, <3>2
        <4> QED BY <1>1, <1>2, <2>1, <3>0, <4>1 DEF NestedInv
      <3> QED BY <3>1, <3>2
    <2> QED BY <1>2, <1>3, <2>2, <2>3 DEF WiresInv
  <1> QED BY <1>1, <1>5, <1>6

\* What the worker posts is the newest message to the main thread.
LEMMA WorkerPosts ==
    ASSUME TypeOK, NEW m \in ToMainMessages, toMain' = Append(toMain, m)
    PROVE  \A x : /\ In(toMain', x) <=> In(toMain, x) \/ x = m
                  /\ Once(toMain, x) /\ (x = m => ~In(toMain, x)) => Once(toMain', x)
  BY AppendIn DEF TypeOK

LEMMA AskWires ==
    ASSUME TypeOK, WiresInv, NEW r \in Requests, Ask(r)
    PROVE  WiresInv'
  <1>1. /\ r \in Nested /\ handler[r] = "running" /\ alive
        /\ toMain' = Append(toMain, Msg("REQUEST", r))
        /\ UNCHANGED <<alive, closed, toWorker, listener, pc>>
        /\ \A s \in Requests : handler'[s] = IF s = r THEN "asking" ELSE handler[s]
    BY DEF Ask, mainVars, TypeOK
  <1>2. ~closed /\ (\A s \in Requests : RequestInv(s)) /\ (\A s \in Nested : NestedInv(s))
    BY <1>1 DEF WiresInv
  <1> DEFINE m == Msg("REQUEST", r)
  <1>3. /\ \A s : Msg("REQUEST", s) = m <=> s = r
        /\ \A s : Msg("RESPONSE", s) # m
    BY MessagesDiffer
  <1>4. m \in ToMainMessages
    BY <1>1, MessageFacts
  <1> HIDE DEF m
  <1>5. toMain' = Append(toMain, m)
    BY <1>1 DEF m
  <1>6. \A x : /\ In(toMain', x) <=> In(toMain, x) \/ x = m
               /\ Once(toMain, x) /\ (x = m => ~In(toMain, x)) => Once(toMain', x)
    BY <1>4, <1>5, WorkerPosts
  <1>7. ASSUME NEW s \in Requests PROVE RequestInv(s)'
    BY <1>1, <1>2, <1>3, <1>6 DEF RequestInv
  <1>8. ASSUME NEW s \in Nested PROVE NestedInv(s)'
    <2>1. NestedInv(s) /\ s \in Requests
      BY <1>2, WorkerAssumption
    <2>2. CASE s = r
      <3>1. /\ pc[<<"respond", s>>] = "idle" /\ ~In(toMain, Msg("REQUEST", s))
            /\ ~In(listener, Msg("REQUEST", s)) /\ ~In(toWorker, Msg("RESPONSE", s))
        BY <1>1, <2>1, <2>2 DEF NestedInv
      <3> QED BY <1>1, <1>3, <1>6, <2>1, <2>2, <3>1 DEF NestedInv
    <2>3. CASE s # r
      <3>1. Msg("REQUEST", s) # m
        BY <1>3, <2>3
      <3> QED BY <1>1, <1>6, <2>1, <2>3, <3>1 DEF NestedInv
    <2> QED BY <2>2, <2>3
  <1> QED BY <1>1, <1>2, <1>7, <1>8 DEF WiresInv

LEMMA AnswerWires ==
    ASSUME TypeOK, WiresInv, NEW r \in Requests, Answer(r)
    PROVE  WiresInv'
  <1>1. /\ handler[r] = (IF r \in Nested THEN "resumed" ELSE "running") /\ alive
        /\ toMain' = Append(toMain, Msg("RESPONSE", r))
        /\ UNCHANGED <<alive, closed, toWorker, listener, pc>>
        /\ \A s \in Requests : handler'[s] = IF s = r THEN "answered" ELSE handler[s]
    BY DEF Answer, mainVars, TypeOK
  <1>2. ~closed /\ (\A s \in Requests : RequestInv(s)) /\ (\A s \in Nested : NestedInv(s))
    BY <1>1 DEF WiresInv
  <1> DEFINE m == Msg("RESPONSE", r)
  <1>3. /\ \A s : Msg("RESPONSE", s) = m <=> s = r
        /\ \A s : Msg("REQUEST", s) # m
    BY MessagesDiffer
  <1>4. m \in ToMainMessages
    BY MessageFacts
  <1> HIDE DEF m
  <1>5. toMain' = Append(toMain, m)
    BY <1>1 DEF m
  <1>6. \A x : /\ In(toMain', x) <=> In(toMain, x) \/ x = m
               /\ Once(toMain, x) /\ (x = m => ~In(toMain, x)) => Once(toMain', x)
    BY <1>4, <1>5, WorkerPosts
  <1>7. ASSUME NEW s \in Requests PROVE RequestInv(s)'
    <2>1. RequestInv(s)
      BY <1>2
    <2>2. CASE s = r
      BY <1>1, <1>3, <1>6, <2>1, <2>2 DEF RequestInv
    <2>3. CASE s # r
      <3>1. Msg("RESPONSE", s) # m
        BY <1>3, <2>3
      <3> QED BY <1>1, <1>6, <2>1, <2>3, <3>1 DEF RequestInv
    <2> QED BY <2>2, <2>3
  <1>8. ASSUME NEW s \in Nested PROVE NestedInv(s)'
    <2>1. NestedInv(s) /\ s \in Requests /\ Msg("REQUEST", s) # m
      BY <1>2, <1>3, WorkerAssumption
    <2>2. CASE s = r
      BY <1>1, <1>6, <2>1, <2>2 DEF NestedInv
    <2>3. CASE s # r
      BY <1>1, <1>6, <2>1, <2>3 DEF NestedInv
    <2> QED BY <2>2, <2>3
  <1> QED BY <1>1, <1>2, <1>7, <1>8 DEF WiresInv

LEMMA HandleWires ==
    ASSUME TypeOK, WiresInv, alive, HandleWorkerMessage
    PROVE  WiresInv'
  <1>1. PICK r \in Nested :
              /\ <<"respond", r>> \in Calls
              /\ pc' = [pc EXCEPT ![<<"respond", r>>] = "called"]
              /\ \A m : /\ In(listener, m) <=> m = Msg("REQUEST", r) \/ In(listener', m)
                        /\ Once(listener, m) =>
                              Once(listener', m) /\ (m = Msg("REQUEST", r) => ~In(listener', m))
    BY HandledMessage
  <1>2. UNCHANGED <<alive, closed, toWorker, toMain, handler>>
    BY DEF HandleWorkerMessage, workerVars
  <1>3. ~closed /\ (\A s \in Requests : RequestInv(s)) /\ (\A s \in Nested : NestedInv(s))
    BY DEF WiresInv
  <1>4. \A j \in Calls : pc'[j] = IF j = <<"respond", r>> THEN "called" ELSE pc[j]
    BY <1>1 DEF TypeOK
  <1>5. ASSUME NEW s \in Requests PROVE RequestInv(s)'
    <2>1. pc'[<<"request", s>>] = pc[<<"request", s>>]
      BY <1>4, CallsFacts
    <2> QED BY <1>2, <1>3, <2>1 DEF RequestInv
  <1>6. ASSUME NEW s \in Nested PROVE NestedInv(s)'
    <2>1. NestedInv(s) /\ <<"respond", s>> \in Calls
      BY <1>3, CallsFacts
    <2>2. CASE s = r
      <3>1. In(listener, Msg("REQUEST", s)) /\ ~In(listener', Msg("REQUEST", s))
        BY <1>1, <2>1, <2>2 DEF NestedInv
      <3>2. pc'[<<"respond", s>>] = "called" /\ Once(listener', Msg("REQUEST", s))
        BY <1>1, <1>4, <2>1, <2>2 DEF NestedInv
      <3> QED BY <1>2, <2>1, <3>1, <3>2 DEF NestedInv
    <2>3. CASE s # r
      <3>1. pc'[<<"respond", s>>] = pc[<<"respond", s>>] /\ Msg("REQUEST", s) # Msg("REQUEST", r)
        BY <1>4, <2>1, <2>3, MessagesDiffer
      <3> QED BY <1>1, <1>2, <2>1, <3>1 DEF NestedInv
    <2> QED BY <2>2, <2>3
  <1> QED BY <1>2, <1>3, <1>5, <1>6 DEF WiresInv

\* A caller that blocks or is cancelled posts nothing.
LEMMA QuietCallWires ==
    ASSUME TypeOK, WiresInv, NEW k \in Calls, NEW v,
           pc' = [pc EXCEPT ![k] = v],
           \/ pc[k] = "called" /\ v = "waiting"
           \/ k[1] = "request" /\ v = "cancelled",
           UNCHANGED <<alive, closed, toWorker, toMain, listener, handler>>
    PROVE  WiresInv'
  <1> SUFFICES ASSUME alive PROVE WiresInv'
    BY DEF WiresInv
  <1>1. ~closed /\ (\A s \in Requests : RequestInv(s)) /\ (\A s \in Nested : NestedInv(s))
    BY DEF WiresInv
  <1>2. \A j \in Calls : pc'[j] = IF j = k THEN v ELSE pc[j]
    BY DEF TypeOK
  <1>3. ASSUME NEW s \in Requests PROVE RequestInv(s)'
    <2>1. RequestInv(s) /\ <<"request", s>> \in Calls
      BY <1>1, CallsFacts
    <2>2. \/ pc'[<<"request", s>>] = pc[<<"request", s>>]
          \/ pc[<<"request", s>>] = "called" /\ pc'[<<"request", s>>] = "waiting"
          \/ pc'[<<"request", s>>] = "cancelled"
      BY <1>2, <2>1
    <2> QED BY <2>1, <2>2 DEF RequestInv
  <1>4. ASSUME NEW s \in Nested PROVE NestedInv(s)'
    <2>1. NestedInv(s) /\ <<"respond", s>> \in Calls
      BY <1>1, CallsFacts
    <2>2. \/ pc'[<<"respond", s>>] = pc[<<"respond", s>>]
          \/ pc[<<"respond", s>>] = "called" /\ pc'[<<"respond", s>>] = "waiting"
      BY <1>2, <2>1
    <2> QED BY <2>1, <2>2 DEF NestedInv
  <1> QED BY <1>1, <1>3, <1>4 DEF WiresInv

\* Every step keeps the wires in order while the worker lives.
LEMMA WiresStep ==
    ASSUME TypeOK, PhaseInv, TakersInv, ListenerInv, WiresInv, [Next]_vars
    PROVE  WiresInv'
  <1>1. ASSUME NEW k \in Calls, Call(k) PROVE WiresInv'
    <2>1. CASE Accepting
      BY <1>1, <2>1, ProceedWires DEF Call, Accepting, workerVars
    <2>2. CASE ~Accepting
      BY <1>1, <2>2, QuietCallWires DEF Call, workerVars
    <2> QED BY <2>1, <2>2
  <1>2. ASSUME NEW k \in Calls, Cancel(k) PROVE WiresInv'
    BY <1>2, QuietCallWires DEF Cancel, workerVars
  <1>3. CASE Signal
    <2>1. CASE readyTakers = <<>>
      BY <1>3, <2>1 DEF Signal, WiresInv, RequestInv, NestedInv, workerVars
    <2>2. CASE readyTakers # <<>>
      <3>1. Head(readyTakers) \in Calls /\ In(readyTakers, Head(readyTakers))
        BY <2>2, DequeueType, TailIn DEF TypeOK
      <3>2. pc[Head(readyTakers)] = "waiting" /\ hasWorker
        BY <1>3, <3>1 DEF TakersInv, Signal, PhaseInv
      <3>3. Proceed(Head(readyTakers))
        BY <1>3, <2>2 DEF Signal
      <3> QED BY <1>3, <3>1, <3>2, <3>3, ProceedWires DEF Signal, workerVars
    <2> QED BY <2>1, <2>2
  <1>4. CASE Shutdown \/ Drained
    <2>1. CASE alive' = FALSE
      BY <2>1 DEF WiresInv
    <2>2. CASE UNCHANGED <<alive, closed, toWorker, toMain>>
      BY <1>4, <2>2 DEF Shutdown, Drained, WiresInv, RequestInv, NestedInv
    <2> QED BY <1>4, <2>1, <2>2 DEF Shutdown, Drained, CloseWorker
  <1>5. CASE Start
    BY <1>5 DEF Start, WiresInv, RequestInv, NestedInv, workerVars
  <1>6. CASE Broker
    BY <1>6, BrokerWires DEF Broker, WiresInv, workerVars
  <1>7. CASE HandleWorkerMessage
    BY <1>7, HandleWires DEF HandleWorkerMessage, WiresInv, workerVars
  <1>8. CASE WorkerReceive
    BY <1>8, WorkerReceiveWires DEF WorkerReceive, WiresInv
  <1>9. ASSUME NEW r \in Requests, Ask(r) PROVE WiresInv'
    BY <1>9, AskWires
  <1>10. ASSUME NEW r \in Requests, Answer(r) PROVE WiresInv'
    BY <1>10, AnswerWires
  <1>11. ASSUME NEW r \in Requests, Fail(r) PROVE WiresInv'
    <2> SUFFICES ASSUME alive PROVE WiresInv'
      BY <1>11 DEF Fail, WiresInv
    <2>1. /\ r \in Failing /\ handler[r] = "running"
          /\ UNCHANGED <<alive, closed, toWorker, toMain, listener, pc>>
          /\ \A s \in Requests : handler'[s] = IF s = r THEN "failed" ELSE handler[s]
      BY <1>11 DEF Fail, mainVars, TypeOK
    <2>2. ~closed /\ (\A s \in Requests : RequestInv(s)) /\ (\A s \in Nested : NestedInv(s))
      BY DEF WiresInv
    <2>3. \A s \in Nested : s \in Requests /\ handler'[s] = handler[s]
      BY <2>1, WorkerAssumption
    <2>4. ASSUME NEW s \in Requests PROVE RequestInv(s)'
      BY <2>1, <2>2 DEF RequestInv
    <2>5. ASSUME NEW s \in Nested PROVE NestedInv(s)'
      BY <2>1, <2>2, <2>3 DEF NestedInv
    <2> QED BY <2>1, <2>2, <2>4, <2>5 DEF WiresInv
  <1>12. CASE UNCHANGED vars
    BY <1>12 DEF vars, WiresInv, RequestInv, NestedInv
  <1> QED
    BY <1>1, <1>2, <1>3, <1>4, <1>5, <1>6, <1>7, <1>8, <1>9, <1>10, <1>11, <1>12 DEF Next

\* Only a handler that asks the main thread at all waits for its answer.
AskedNested == \A r \in Requests : handler[r] \in {"asking", "resumed"} => r \in Nested

LEMMA AskedStep ==
    ASSUME TypeOK, AskedNested, [Next]_vars
    PROVE  AskedNested'
  <1>1. CASE WorkerReceive
    <2>1. PICK m \in ToWorkerMessages :
              handler' = IF m.type = "REQUEST"
                         THEN [handler EXCEPT ![m.id] = "running"]
                         ELSE IF m.type = "RESPONSE" /\ handler[m.id] = "asking"
                         THEN [handler EXCEPT ![m.id] = "resumed"]
                         ELSE handler
      BY <1>1, WorkerTakes
    <2>2. m.type = "RESPONSE" => m.id \in Nested
      BY MessageFacts
    <2> QED BY <2>1, <2>2 DEF AskedNested, TypeOK
  <1>2. ASSUME NEW r \in Requests, Ask(r) \/ Answer(r) \/ Fail(r) PROVE AskedNested'
    BY <1>2 DEF Ask, Answer, Fail, AskedNested, TypeOK
  <1>3. CASE handler' = handler
    BY <1>3 DEF AskedNested
  <1> QED
    BY <1>1, <1>2, <1>3 DEF Next, Call, Cancel, Start, Signal, Shutdown, Drained,
       Broker, HandleWorkerMessage, workerVars, vars

\* The inductive invariant behind Conserved.
ConservedInv == TypeOK /\ PhaseInv /\ TakersInv /\ ListenerInv /\ WiresInv /\ AskedNested

LEMMA InitConserved == Init => ConservedInv
  <1> SUFFICES ASSUME Init PROVE ConservedInv
    OBVIOUS
  <1>1. TypeOK
    BY InitTyped
  <1>2. \A m : /\ ~In(toWorker, m) /\ ~In(toMain, m) /\ ~In(listener, m) /\ ~In(readyTakers, m)
               /\ Once(toWorker, m) /\ Once(toMain, m) /\ Once(listener, m)
               /\ Once(readyTakers, m)
    BY DEF Init, In, Once
  <1>3. /\ \A r \in Requests : pc[<<"request", r>>] = "called" /\ handler[r] = "none"
        /\ \A r \in Nested : pc[<<"respond", r>>] = "idle" /\ handler[r] = "none"
    BY CallsFacts, WorkerAssumption DEF Init
  <1>4. PhaseInv
    BY <1>3 DEF Init, PhaseInv, InFlight, NoCallGivesUp
  <1>5. TakersInv /\ ListenerInv /\ AskedNested
    BY <1>2, <1>3 DEF Init, TakersInv, ListenerInv, AskedNested
  <1>6. WiresInv
    BY <1>2, <1>3 DEF Init, WiresInv, RequestInv, NestedInv
  <1> QED BY <1>1, <1>4, <1>5, <1>6 DEF ConservedInv

LEMMA ConservedFollows ==
    ASSUME ConservedInv
    PROVE  Conserved
  <1> USE DEF ConservedInv
  <1> SUFFICES ASSUME alive, NEW r \in Requests
               PROVE  /\ pc[<<"request", r>>] = "awaiting" =>
                            r \in channels /\ Cardinality(Holders(r)) = 1
                      /\ handler[r] = "asking" => Cardinality(NestedHolders(r)) = 1
    BY DEF Conserved
  <1>1. RequestInv(r) /\ (r \in Nested => NestedInv(r))
    BY DEF WiresInv
  <1>2. ASSUME pc[<<"request", r>>] = "awaiting"
        PROVE  r \in channels /\ Cardinality(Holders(r)) = 1
    <2>1. r \in channels
      BY <1>2 DEF PhaseInv, InFlight
    <2>2. Holders(r) = {h \in {"toWorker", "handler", "toMain"} :
              \/ h = "toWorker" /\ In(toWorker, Msg("REQUEST", r))
              \/ h = "handler"  /\ handler[r] \in {"running", "asking", "resumed", "failed"}
              \/ h = "toMain"   /\ In(toMain, Msg("RESPONSE", r))}
      BY DEF Holders, In
    <2>3. Holders(r) = {"toWorker"} \/ Holders(r) = {"handler"} \/ Holders(r) = {"toMain"}
      BY <1>1, <1>2, <2>2 DEF RequestInv
    <2> QED BY <2>1, <2>3, FS_Singleton
  <1>3. ASSUME handler[r] = "asking"
        PROVE  Cardinality(NestedHolders(r)) = 1
    <2>1. NestedInv(r)
      BY <1>1, <1>3 DEF AskedNested
    <2>2. NestedHolders(r) = {h \in {"toMain", "listener", "respond", "toWorker"} :
              \/ h = "toMain"   /\ In(toMain, Msg("REQUEST", r))
              \/ h = "listener" /\ In(listener, Msg("REQUEST", r))
              \/ h = "respond"  /\ pc[<<"respond", r>>] \in {"called", "waiting"}
              \/ h = "toWorker" /\ In(toWorker, Msg("RESPONSE", r))}
      BY DEF NestedHolders, In
    <2>3. \/ NestedHolders(r) = {"toMain"} \/ NestedHolders(r) = {"listener"}
          \/ NestedHolders(r) = {"respond"} \/ NestedHolders(r) = {"toWorker"}
      BY <1>3, <2>1, <2>2 DEF NestedInv
    <2> QED BY <2>3, FS_Singleton
  <1> QED BY <1>2, <1>3

\* While the worker lives nothing is lost or duplicated between the brokers of
\* the two threads: a request in flight is registered and held in one place, and
\* so is the question of a handler that waits for the main thread.
THEOREM RequestsConserved == Spec => []Conserved
  <1>1. ConservedInv /\ [Next]_vars => ConservedInv'
    BY TypeStep, PhaseStep, TakersStep, ListenerStep, WiresStep, AskedStep DEF ConservedInv
  <1>2. ConservedInv => Conserved
    BY ConservedFollows
  <1> QED BY <1>1, <1>2, InitConserved, PTL DEF Spec

=============================================================================
