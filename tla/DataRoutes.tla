----------------------------- MODULE DataRoutes -----------------------------
(***************************************************************************)
(* The data routes of opensovd-server: requests that look up an entity     *)
(* under a read guard of the Topology and await its data provider while    *)
(* they hold the guard, next to a writer that changes the registry.        *)
(*                                                                         *)
(* The ten handlers (categories, groups, list, read and write, of a        *)
(* component and of an app) are one handler here: they take the same steps *)
(* and differ in the collection they look in, which is part of the entity, *)
(* and in the answer, which is left out.  A request that an extractor      *)
(* refuses never reaches the topology and is not a step.  A data provider  *)
(* is external: it answers a call, with success or with a DataError, or it *)
(* does not answer at all.                                                 *)
(*                                                                         *)
(* The server may be told to shut down at any moment: it takes no request  *)
(* any more and returns when it has none.                                  *)
(***************************************************************************)
EXTENDS RwLock, Naturals

CONSTANTS Entities,      \* components and apps that requests ask for
          Writer,        \* the task that changes the registry
          None,          \* no request, no call
          Absent,        \* registry: the entity is not in the topology
          Bare,          \* registry: it is, without a data provider
          MaxProviders,  \* bound: data providers that are ever registered
          Hung           \* entities whose provider may never answer

ASSUME WriterAssumption == Writer \in Tasks
ASSUME MaxProvidersAssumption == MaxProviders \in Nat
ASSUME DistinctAssumption == None \notin Entities /\ {None, Absent, Bare} \cap Nat = {}

VARIABLES registry,   \* entity -> Absent, Bare or the provider it has
          created,    \* number of providers registered so far
          request,    \* handler -> the entity its request is for, or None
          call,       \* handler -> the provider it awaits, or None
          server      \* "serving", "draining" since a shutdown, or "returned"

requestVars == <<request, call>>
dataVars    == <<lockVars, registry, created, requestVars, server>>

Handlers == Tasks \ {Writer}

DataInit ==
    /\ LockInit
    /\ registry \in [Entities -> {Absent, Bare}]
    /\ created = 0
    /\ request = [h \in Handlers |-> None]
    /\ call = [h \in Handlers |-> None]
    /\ server = "serving"

(***************************************************************************)
(* A handler.                                                              *)
(***************************************************************************)

\* The extractors have run; topology.read() is asked for.
Arrive(h, e) ==
    /\ server = "serving"
    /\ Enqueue(h, "wantRead")
    /\ request' = [request EXCEPT ![h] = e]
    /\ UNCHANGED <<registry, created, call, server>>

\* Faulty variant of Enter: it asks for the guard as if it were to write.
EnterAlone(h) ==
    /\ Readers = {}
    /\ GrantRead(h)
    /\ UNCHANGED <<registry, created, requestVars, server>>

Enter(h) ==
    /\ GrantRead(h)
    /\ UNCHANGED <<registry, created, requestVars, server>>

\* The answer is made, Ok or Err, and the guard goes out of scope.
Respond(h) ==
    /\ request' = [request EXCEPT ![h] = None]
    /\ call' = [call EXCEPT ![h] = None]
    /\ Unlock(h)
    /\ UNCHANGED <<registry, created, server>>

\* Faulty variant of LookupFails: it knows missing entities only, and nothing
\* answers for an entity without a provider.
OnlyAbsentFails(h) ==
    /\ mode[h] = "reading"
    /\ call[h] = None
    /\ registry[request[h]] = Absent
    /\ Respond(h)

\* EntityNotFound and ProviderNotAvailable.
LookupFails(h) ==
    /\ mode[h] = "reading"
    /\ call[h] = None
    /\ registry[request[h]] \in {Absent, Bare}
    /\ Respond(h)

\* Faulty variant of CallProvider: it lets go of the guard before the call.
CallWithoutGuard(h) ==
    /\ mode[h] = "reading"
    /\ call[h] = None
    /\ registry[request[h]] \notin {Absent, Bare}
    /\ call' = [call EXCEPT ![h] = registry[request[h]]]
    /\ Unlock(h)
    /\ UNCHANGED <<registry, created, request, server>>

CallProvider(h) ==
    /\ mode[h] = "reading"
    /\ call[h] = None
    /\ registry[request[h]] \notin {Absent, Bare}
    /\ call' = [call EXCEPT ![h] = registry[request[h]]]
    /\ UNCHANGED <<lockVars, registry, created, request, server>>

ProviderAnswers(h) ==
    /\ call[h] # None
    /\ Respond(h)

\* Faulty variant of Disconnect: the guard is not given back.
DisconnectKeepsGuard(h) ==
    /\ call[h] # None
    /\ request' = [request EXCEPT ![h] = None]
    /\ call' = [call EXCEPT ![h] = None]
    /\ UNCHANGED <<lockVars, registry, created, server>>

\* Another: the call goes on in a task of its own, with the guard.
DisconnectFromQueue(h) ==
    /\ CancelWait(h)
    /\ request' = [request EXCEPT ![h] = None]
    /\ call' = [call EXCEPT ![h] = None]
    /\ UNCHANGED <<registry, created, server>>

\* The client closes its connection and the handler's future is dropped at the
\* await it is suspended in, with the guard it may hold.
Disconnect(h) ==
    /\ \/ CancelWait(h)
       \/ call[h] # None /\ Unlock(h)
    /\ request' = [request EXCEPT ![h] = None]
    /\ call' = [call EXCEPT ![h] = None]
    /\ UNCHANGED <<registry, created, server>>

(***************************************************************************)
(* The writer: discovery, or any other holder of a Topology.               *)
(***************************************************************************)

WriterAsks   == Enqueue(Writer, "wantWrite") /\ UNCHANGED <<registry, created, requestVars, server>>
WriterEnters == GrantWrite(Writer) /\ UNCHANGED <<registry, created, requestVars, server>>
WriterLeaves == Unlock(Writer) /\ UNCHANGED <<registry, created, requestVars, server>>

Unregister(e) ==
    /\ mode[Writer] = "writing"
    /\ \E state \in {Absent, Bare} : registry' = [registry EXCEPT ![e] = state]
    /\ UNCHANGED <<lockVars, created, requestVars, server>>

RegisterProvider(e) ==
    /\ mode[Writer] = "writing"
    /\ created < MaxProviders
    /\ created' = created + 1
    /\ registry' = [registry EXCEPT ![e] = created + 1]
    /\ UNCHANGED <<lockVars, requestVars, server>>

(***************************************************************************)
(* The shutdown.                                                           *)
(***************************************************************************)

Shutdown ==
    /\ server = "serving"
    /\ server' = "draining"
    /\ UNCHANGED <<lockVars, registry, created, requestVars>>

\* Faulty variant of Drained: it waits for the lock to be free as well, as an end of
\* the discovery task would.
DrainedWhenUnlocked ==
    /\ server = "draining"
    /\ \A t \in Tasks : mode[t] = Idle
    /\ server' = "returned"
    /\ UNCHANGED <<lockVars, registry, created, requestVars>>

\* The graceful shutdown of axum::serve waits for the requests it has.
Drained ==
    /\ server = "draining"
    /\ \A h \in Handlers : request[h] = None
    /\ server' = "returned"
    /\ UNCHANGED <<lockVars, registry, created, requestVars>>

HandlerStep(h) == Enter(h) \/ LookupFails(h) \/ CallProvider(h)

DataNext ==
    \/ \E h \in Handlers : \/ \E e \in Entities : Arrive(h, e)
                           \/ HandlerStep(h) \/ ProviderAnswers(h) \/ Disconnect(h)
    \/ WriterAsks \/ WriterEnters \/ WriterLeaves
    \/ \E e \in Entities : Unregister(e) \/ RegisterProvider(e)
    \/ Shutdown \/ Drained

PromptAnswer(h) == request[h] # None /\ request[h] \notin Hung /\ ProviderAnswers(h)
GiveUp(h)       == request[h] # None /\ request[h] \in Hung /\ Disconnect(h)

\* The runtime polls every task that can go on, the writer drops its guard, and
\* a provider that is not hung answers.
DataFairness ==
    /\ \A h \in Handlers : WF_dataVars(HandlerStep(h)) /\ WF_dataVars(PromptAnswer(h))
    /\ WF_dataVars(WriterEnters)
    /\ WF_dataVars(WriterLeaves)
    /\ WF_dataVars(Drained)

DataSpec == DataInit /\ [][DataNext]_dataVars /\ DataFairness

\* The clients of a hung provider give up in the end.
HungClientsLeave == \A h \in Handlers : WF_dataVars(GiveUp(h))

\* From some moment on nobody asks to write, as in a server without discovery,
\* whose entities are registered before it starts.
WritingEnds == <>[](mode[Writer] = Idle)

-----------------------------------------------------------------------------

\* Type invariant, with the life of a request: a handler serves one exactly
\* while it waits for the guard or holds it, and calls only while it holds it.
DataTypeOK ==
    /\ LockTypeOK
    /\ registry \in [Entities -> {Absent, Bare} \cup 1 .. MaxProviders]
    /\ created \in 0 .. MaxProviders
    /\ request \in [Handlers -> Entities \cup {None}]
    /\ call \in [Handlers -> 1 .. MaxProviders \cup {None}]
    /\ \A h \in Handlers : /\ request[h] = None <=> mode[h] = Idle
                           /\ call[h] # None => mode[h] = "reading"
    /\ server \in {"serving", "draining", "returned"}
    /\ server = "returned" => \A h \in Handlers : request[h] = None

\* A provider that is being called is the one registered for the entity asked
\* for, from the lookup to the answer, however long it takes and whatever the
\* writer wants: no entity is removed or replaced under a call.
CallsAreOnRegisteredProviders ==
    \A h \in Handlers : call[h] # None => registry[request[h]] = call[h]

\* A request ends, although it queues with a writer and with every other
\* request for the same lock: it is answered, or its client has left.  A provider
\* that hangs makes all of them wait until its own clients leave.
EveryRequestEnds ==
    HungClientsLeave => \A h \in Handlers : request[h] # None ~> request[h] = None

\* The writer gets its turn among requests that never leave a gap.
WriterGetsItsTurn ==
    HungClientsLeave => (mode[Writer] = "wantWrite" ~> mode[Writer] = "writing")

\* A shutdown comes to its end, whatever requests the server has: those that wait
\* for the lock, for the writer or for a provider, and for a provider that hangs if
\* its clients leave.
ShutdownIsFinished == HungClientsLeave => (server = "draining" ~> server = "returned")

\* Where nobody writes any more, a hung provider holds up only the requests for
\* it, even if its clients wait for ever.
OthersAreServed ==
    WritingEnds => \A h \in Handlers :
        request[h] # None /\ request[h] \notin Hung ~> request[h] = None

\* A step that nobody outside has to help with can be taken: a task enters the lock,
\* looks up, answers, leaves the lock, or the server returns.
DueStep ==
    \/ \E h \in Handlers : \/ mode[h] = "wantRead" /\ MayEnter(h)
                           \/ mode[h] = "reading" /\ call[h] = None
                           \/ call[h] # None /\ request[h] \notin Hung
    \/ mode[Writer] = "wantWrite" /\ MayEnter(Writer)
    \/ mode[Writer] = "writing"
    \/ server = "draining" /\ \A h \in Handlers : request[h] = None

\* Handlers, writer and shutdown never all wait for each other: as long as one of them
\* waits a step is due, unless the client of a hung provider keeps its guard.
OnlyHungProvidersBlock ==
    Waiting # {} \/ server = "draining" =>
        DueStep \/ \E h \in Handlers : call[h] # None /\ request[h] \in Hung

\* Without a writer not even a hung provider keeps other requests out.
ReadersPassHungProviders ==
    mode[Writer] = Idle /\ Waiting # {} =>
        \E h \in Handlers : mode[h] = "wantRead" /\ MayEnter(h)

=============================================================================
