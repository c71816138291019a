---------------------------- MODULE WorkerService ----------------------------
(***************************************************************************)
(* The request/response service the client wraps around a web worker       *)
(* (utils/WorkerUtil.ts, GracefulWorkerService) together with the two ends *)
(* it connects: the sagas that call it on the main thread and the message  *)
(* listeners of the evaluation worker (evaluation.worker.ts and            *)
(* Messenger.ts).                                                          *)
(*                                                                         *)
(* A saga runs until its next blocking effect, so one action is the code   *)
(* between two such effects.  One saga starts and stops the service, one   *)
(* after the other (evaluationChangeListenerSaga).  A call of the service  *)
(* is one of                                                               *)
(*   <<"request", r>>  request(): send r to the worker, wait for an answer *)
(*   <<"ping", p>>     ping(): send p and forget it                        *)
(*   <<"respond", r>>  respond(): answer the request that the worker's     *)
(*                     handler of r made to the main thread.               *)
(***************************************************************************)
EXTENDS Naturals, Sequences, FiniteSets

CONSTANTS
    Requests,     \* the calls of request(), each with its own message id
    Pings,        \* the calls of ping()
    Nested,       \* the requests whose handler asks the main thread first
    Failing,      \* the requests whose handler throws: nobody answers them
    MaxStarts     \* bound: how often the service is started

ASSUME WorkerAssumption ==
    /\ Nested \subseteq Requests
    /\ Failing \subseteq Requests
    /\ Nested \cap Failing = {}
    /\ MaxStarts \in Nat

VARIABLES
    isReady,      \* _isReady
    hasWorker,    \* _Worker is defined
    alive,        \* the Worker instance _workerClass was not terminated
    channels,     \* _channels: the message ids with an in-flight request
    readyTakers,  \* the calls blocked in take(_readyChan), oldest first
    pc,           \* where each call of the service is
    ctl,          \* where the saga that starts and shuts down the service is
    starts,       \* number of starts that took effect
    listener,     \* messages buffered in listenerChannel
    closed,       \* listenerChannel was closed
    toWorker,     \* messages posted to the worker
    toMain,       \* messages the worker posted
    handler       \* where the worker's handler of each request is

mainVars   == <<isReady, hasWorker, channels, readyTakers, pc, ctl, starts>>
workerVars == <<alive, handler>>
vars == <<isReady, hasWorker, alive, channels, readyTakers, pc, ctl, starts,
          listener, closed, toWorker, toMain, handler>>

Calls == ({"request"} \X Requests) \cup ({"ping"} \X Pings)
            \cup ({"respond"} \X Nested)

\* The message types of MessageUtil.ts.
Msg(t, i) == [type |-> t, id |-> i]

NestedRequests == [type : {"REQUEST"}, id : Nested]

ToWorkerMessages == [type : {"REQUEST"}, id : Requests]
                       \cup [type : {"RESPONSE"}, id : Nested]
                       \cup [type : {"DEFAULT"}, id : Pings]

ToMainMessages == NestedRequests \cup [type : {"RESPONSE"}, id : Requests]

TypeOK ==
    /\ isReady \in BOOLEAN /\ hasWorker \in BOOLEAN /\ alive \in BOOLEAN
    /\ closed \in BOOLEAN
    /\ channels \subseteq Requests
    /\ readyTakers \in Seq(Calls)
    /\ pc \in [Calls -> {"idle", "called", "waiting", "awaiting", "done",
                         "cancelled", "skipped"}]
    /\ ctl \in {"idle", "signalling", "draining"}
    /\ starts \in 0..MaxStarts
    /\ listener \in Seq(NestedRequests)
    /\ toWorker \in Seq(ToWorkerMessages)
    /\ toMain \in Seq(ToMainMessages)
    /\ handler \in [Requests -> {"none", "running", "asking", "resumed",
                                 "answered", "failed"}]

\* The constructor.  A respond() is called only once the request it answers
\* arrived, so it starts "idle"; the others may be called at any time.
Init ==
    /\ isReady = FALSE /\ hasWorker = FALSE /\ alive = TRUE
    /\ channels = {}
    /\ readyTakers = <<>>
    /\ pc = [k \in Calls |-> IF k[1] = "respond" THEN "idle" ELSE "called"]
    /\ ctl = "idle"
    /\ starts = 0
    /\ listener = <<>> /\ closed = FALSE
    /\ toWorker = <<>> /\ toMain = <<>>
    /\ handler = [r \in Requests |-> "none"]

-----------------------------------------------------------------------------
(* The main thread: GracefulWorkerService *)

\* postMessage: a terminated worker receives nothing.
Post(m) == toWorker' = IF alive THEN Append(toWorker, m) ELSE toWorker

\* The rest of request, ping or respond once ready(true) returned: give up if
\* there is no worker, otherwise post the message.  A request registers its
\* channel first and then blocks in take(ch).
Proceed(k) ==
    IF ~hasWorker
    THEN /\ pc' = [pc EXCEPT ![k] = "skipped"]
         /\ UNCHANGED <<channels, toWorker>>
    ELSE IF k[1] = "request"
    THEN /\ pc' = [pc EXCEPT ![k] = "awaiting"]
         /\ channels' = channels \cup {k[2]}
         /\ Post(Msg("REQUEST", k[2]))
    ELSE /\ pc' = [pc EXCEPT ![k] = "done"]
         /\ UNCHANGED channels
         /\ Post(Msg(IF k[1] = "ping" THEN "DEFAULT" ELSE "RESPONSE", k[2]))

\* Faulty: a draining service accepts; nobody waits; shutdown() does not drain.
AcceptWhileDraining == hasWorker
NeverWait           == TRUE
NeverDrain          == TRUE

\* The test of ready(): anything else waits for the signal of start().
Accepting == isReady /\ hasWorker

\* The test of shutdown()'s polling loop.
NoneInFlight == channels = {}

\* request(), ping() or respond() up to its first blocking effect: ready(true)
\* returns at once if the service is ready and else blocks in take(_readyChan).
Call(k) ==
    /\ pc[k] = "called"
    /\ IF Accepting
       THEN Proceed(k) /\ UNCHANGED readyTakers
       ELSE /\ pc' = [pc EXCEPT ![k] = "waiting"]
            /\ readyTakers' = Append(readyTakers, k)
            /\ UNCHANGED <<channels, toWorker>>
    /\ UNCHANGED <<isReady, hasWorker, ctl, starts, listener, closed, toMain,
                   workerVars>>

\* start(): install the worker and become ready.  The put on _readyChan is an
\* effect the saga scheduler runs later, in Signal.
Start ==
    /\ ctl = "idle"
    /\ ~(isReady \/ hasWorker)
    /\ starts < MaxStarts
    /\ hasWorker' = TRUE
    /\ isReady' = TRUE
    /\ starts' = starts + 1
    /\ ctl' = "signalling"
    /\ UNCHANGED <<channels, readyTakers, pc, listener, closed, toWorker,
                   toMain, workerVars>>

\* put(_readyChan, true): a channel hands a message to its oldest taker, whose
\* saga goes on at once; without a taker buffers.none() drops the message.
Signal ==
    /\ ctl = "signalling"
    /\ ctl' = "idle"
    /\ IF readyTakers = <<>>
       THEN UNCHANGED <<pc, channels, toWorker, readyTakers>>
       ELSE /\ Proceed(Head(readyTakers))
            /\ readyTakers' = Tail(readyTakers)
    /\ UNCHANGED <<isReady, hasWorker, starts, listener, closed, toMain,
                   workerVars>>

\* The end of shutdown(): detach the broker, terminate the worker (which also
\* discards the messages in transit) and close listenerChannel.
CloseWorker ==
    /\ hasWorker' = FALSE
    /\ alive' = FALSE
    /\ closed' = TRUE
    /\ toWorker' = <<>> /\ toMain' = <<>>

\* shutdown() up to its first delay(10).
Shutdown ==
    /\ ctl = "idle"
    /\ isReady
    /\ isReady' = FALSE
    /\ IF NoneInFlight
       THEN CloseWorker /\ UNCHANGED ctl
       ELSE /\ ctl' = "draining"
            /\ UNCHANGED <<hasWorker, alive, closed, toWorker, toMain>>
    /\ UNCHANGED <<channels, readyTakers, pc, starts, listener, handler>>

\* The delay that finds no channel left.  ReadyMeansWorker shows that the
\* early return for an undefined _Worker is never taken.
Drained ==
    /\ ctl = "draining"
    /\ NoneInFlight
    /\ hasWorker
    /\ CloseWorker
    /\ ctl' = "idle"
    /\ UNCHANGED <<isReady, channels, readyTakers, pc, starts, listener, handler>>

\* The finally block of request().  Faulty: it forgets the channel.
KeepChannel(r) == UNCHANGED channels
DropChannel(r) == channels' = channels \ {r}

\* The caller of request() is cancelled: a blocked take leaves its channel, and
\* the finally block drops the channel of a request already posted.
Cancel(k) ==
    /\ k[1] = "request"
    /\ pc' = [pc EXCEPT ![k] = "cancelled"]
    /\ \/ /\ pc[k] = "waiting"
          /\ \E i \in 1..Len(readyTakers) :
                /\ readyTakers[i] = k
                /\ readyTakers' = SubSeq(readyTakers, 1, i - 1)
                                     \o SubSeq(readyTakers, i + 1, Len(readyTakers))
          /\ UNCHANGED channels
       \/ /\ pc[k] = "awaiting"
          /\ DropChannel(k[2])
          /\ UNCHANGED readyTakers
    /\ UNCHANGED <<isReady, hasWorker, ctl, starts, listener, closed, toWorker,
                   toMain, workerVars>>

\* The two tests of _broker.  Faulty: a response is not seen to be one.
NoResponse(m) == FALSE
IsResponse(m) == m.type = "RESPONSE"
HasChannel(r) == r \in channels

\* _broker: a response wakes the request that owns its channel, whose finally
\* block removes the channel; a late response finds none and is dropped.
\* Every other message goes to listenerChannel.
Broker ==
    /\ toMain # <<>>
    /\ toMain' = Tail(toMain)
    /\ LET m == Head(toMain) IN
       IF IsResponse(m)
       THEN /\ IF HasChannel(m.id)
               THEN pc' = [pc EXCEPT ![<<"request", m.id>>] = "done"]
               ELSE UNCHANGED pc
            /\ DropChannel(m.id)
            /\ UNCHANGED listener
       ELSE /\ listener' = IF closed THEN listener ELSE Append(listener, m)
            /\ UNCHANGED <<pc, channels>>
    /\ UNCHANGED <<isReady, hasWorker, readyTakers, ctl, starts, closed,
                   toWorker, workerVars>>

\* Faulty: the message is taken and lost while the service is not ready.
HandleIfReady ==
    /\ listener # <<>>
    /\ listener' = Tail(listener)
    /\ pc' = IF isReady THEN [pc EXCEPT ![<<"respond", Head(listener).id>>] = "called"]
                        ELSE pc
    /\ UNCHANGED <<isReady, hasWorker, channels, readyTakers, ctl, starts,
                   closed, toWorker, toMain, workerVars>>

\* handleEvalWorkerRequestSaga takes the next message and spawns a handler for
\* it; processTriggerHandler will answer a request with respond().
HandleWorkerMessage ==
    /\ listener # <<>>
    /\ listener' = Tail(listener)
    /\ pc' = [pc EXCEPT ![<<"respond", Head(listener).id>>] = "called"]
    /\ UNCHANGED <<isReady, hasWorker, channels, readyTakers, ctl, starts,
                   closed, toWorker, toMain, workerVars>>

-----------------------------------------------------------------------------
(* The worker: evaluation.worker.ts and Messenger.ts *)

\* Faulty: the worker listens to requests only.
ReceiveRequests ==
    /\ toWorker # <<>>
    /\ toWorker' = Tail(toWorker)
    /\ handler' = IF Head(toWorker).type = "REQUEST"
                  THEN [handler EXCEPT ![Head(toWorker).id] = "running"]
                  ELSE handler
    /\ UNCHANGED <<mainVars, alive, listener, closed, toMain>>

\* The message event.  A request starts its handler; the one-shot listener of
\* responseHandler resolves a nested request; the rest is ignored.
WorkerReceive ==
    /\ toWorker # <<>>
    /\ toWorker' = Tail(toWorker)
    /\ LET m == Head(toWorker) IN
       handler' = IF m.type = "REQUEST"
                  THEN [handler EXCEPT ![m.id] = "running"]
                  ELSE IF m.type = "RESPONSE" /\ handler[m.id] = "asking"
                  THEN [handler EXCEPT ![m.id] = "resumed"]
                  ELSE handler
    /\ UNCHANGED <<mainVars, alive, listener, closed, toMain>>

\* WorkerMessenger.request: the handler of r asks the main thread.
Ask(r) ==
    /\ alive
    /\ r \in Nested
    /\ handler[r] = "running"
    /\ handler' = [handler EXCEPT ![r] = "asking"]
    /\ toMain' = Append(toMain, Msg("REQUEST", r))
    /\ UNCHANGED <<mainVars, alive, listener, closed, toWorker>>

\* WorkerMessenger.respond, with the value the handler of r computed.  Handlers
\* that await finish in any order.
Answer(r) ==
    /\ alive
    /\ r \notin Failing
    /\ handler[r] = IF r \in Nested THEN "resumed" ELSE "running"
    /\ handler' = [handler EXCEPT ![r] = "answered"]
    /\ toMain' = Append(toMain, Msg("RESPONSE", r))
    /\ UNCHANGED <<mainVars, alive, listener, closed, toWorker>>

\* The handler of r throws: the listener never reaches respond.
Fail(r) ==
    /\ alive
    /\ r \in Failing
    /\ handler[r] = "running"
    /\ handler' = [handler EXCEPT ![r] = "failed"]
    /\ UNCHANGED <<mainVars, alive, listener, closed, toWorker, toMain>>

-----------------------------------------------------------------------------

Next ==
    \/ \E k \in Calls : Call(k) \/ Cancel(k)
    \/ Start \/ Signal \/ Shutdown \/ Drained
    \/ Broker \/ HandleWorkerMessage \/ WorkerReceive
    \/ \E r \in Requests : Ask(r) \/ Answer(r) \/ Fail(r)

Spec == Init /\ [][Next]_vars

\* Both event loops keep delivering messages and every saga or handler that can
\* run does.  Whether a saga is cancelled, or shuts the service down, is up to
\* the application; that it starts the service is what Start is fair for.
Fairness ==
    /\ WF_vars(Broker) /\ WF_vars(HandleWorkerMessage) /\ WF_vars(WorkerReceive)
    /\ \A k \in Calls : WF_vars(Call(k))
    /\ WF_vars(Start) /\ WF_vars(Signal) /\ WF_vars(Drained)
    /\ \A r \in Requests : WF_vars(Ask(r)) /\ WF_vars(Answer(r)) /\ WF_vars(Fail(r))

FairSpec == Spec /\ Fairness
-----------------------------------------------------------------------------
(* Properties *)

\* What the main thread of request r, the worker and the wires hold of it.
Holders(r) ==
    {h \in {"toWorker", "handler", "toMain"} :
        \/ h = "toWorker" /\ \E i \in DOMAIN toWorker : toWorker[i] = Msg("REQUEST", r)
        \/ h = "handler"  /\ handler[r] \in {"running", "asking", "resumed", "failed"}
        \/ h = "toMain"   /\ \E i \in DOMAIN toMain : toMain[i] = Msg("RESPONSE", r)}

\* Where the answer to the nested request of r is while its handler waits.
NestedHolders(r) ==
    {h \in {"toMain", "listener", "respond", "toWorker"} :
        \/ h = "toMain"   /\ \E i \in DOMAIN toMain : toMain[i] = Msg("REQUEST", r)
        \/ h = "listener" /\ \E i \in DOMAIN listener : listener[i] = Msg("REQUEST", r)
        \/ h = "respond"  /\ pc[<<"respond", r>>] \in {"called", "waiting"}
        \/ h = "toWorker" /\ \E i \in DOMAIN toWorker : toWorker[i] = Msg("RESPONSE", r)}

\* While the worker lives, a request in flight is registered in _channels and is
\* held in exactly one place, and a handler that asked the main thread has its
\* question or the answer in exactly one place: nothing is lost or duplicated
\* between the brokers of the two threads.
Conserved ==
    alive => \A r \in Requests :
        /\ pc[<<"request", r>>] = "awaiting" => r \in channels /\ Cardinality(Holders(r)) = 1
        /\ handler[r] = "asking" => Cardinality(NestedHolders(r)) = 1

\* "Impossible case" of request(): no caller that waited for the service finds it
\* without a worker and gives up.
NoCallGivesUp == \A k \in Calls : pc[k] # "skipped"

\* The service is a gracefully stopped one: it accepts requests only between
\* start() and shutdown() and terminates the worker only once every request in
\* flight has been answered or cancelled.
Graceful == INSTANCE DrainableService WITH
    Work     <- Requests,
    inflight <- {r \in Requests : pc[<<"request", r>>] = "awaiting"},
    state    <- IF isReady THEN "up" ELSE IF hasWorker THEN "draining" ELSE "down"

GracefulSpec == Graceful!Spec

\* While the service stays up with a live worker, every request its handler does
\* not fail on is answered, unless it is cancelled.
ServedWhileAlive ==
    <>[](isReady /\ alive) => \A r \in Requests \ Failing :
        pc[<<"request", r>>] = "awaiting" ~> pc[<<"request", r>>] # "awaiting"

\* shutdown() drains, or it is stuck on a request whose handler failed, whose
\* handler waits for an answer respond() holds back, or whose worker is gone.
DrainEndsOrBlocked ==
    ctl = "draining" ~>
        \/ ctl = "idle"
        \/ \E r \in Requests :
              /\ pc[<<"request", r>>] = "awaiting"
              /\ \/ handler[r] = "failed"
                 \/ r \in Nested /\ pc[<<"respond", r>>] = "waiting"
                 \/ ~alive

=============================================================================
