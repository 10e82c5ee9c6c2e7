----------------------------- MODULE DataProofs -----------------------------
(***************************************************************************)
(* The calls of data providers, for every set of handlers and entities and *)
(* every number of providers; and what a provider makes of its resources,  *)
(* for every set of names and every number of resources.                   *)
(***************************************************************************)
EXTENDS DataRoutes, DataProvider, RwLockProofs, FiniteSetTheorems, SequenceTheorems,
        Integers

\* Every step uses the lock as the lock allows, or not at all.
LEMMA StepsUseTheLock == [DataNext]_dataVars => [LockNext]_lockVars
<1> SUFFICES ASSUME [DataNext]_dataVars PROVE [LockNext]_lockVars
  OBVIOUS
<1> USE WriterAssumption DEF Handlers
<1>1. ASSUME NEW h \in Handlers, NEW e \in Entities, Arrive(h, e)
      PROVE  LockNext
  BY <1>1 DEF Arrive, LockNext, Waits
<1>2. ASSUME NEW h \in Handlers, Enter(h)
      PROVE  LockNext
  BY <1>2 DEF Enter, LockNext
<1>3. ASSUME NEW h \in Handlers, LookupFails(h) \/ ProviderAnswers(h) \/ Disconnect(h)
      PROVE  LockNext
  BY <1>3 DEF LookupFails, ProviderAnswers, Disconnect, Respond, LockNext
<1>4. ASSUME NEW h \in Handlers, CallProvider(h)
      PROVE  UNCHANGED lockVars
  BY <1>4 DEF CallProvider
<1>5. CASE WriterAsks
  BY <1>5 DEF WriterAsks, LockNext, Waits
<1>6. CASE WriterEnters
  BY <1>6 DEF WriterEnters, LockNext
<1>7. CASE WriterLeaves
  BY <1>7 DEF WriterLeaves, LockNext
<1>8. ASSUME NEW e \in Entities, Unregister(e) \/ RegisterProvider(e)
      PROVE  UNCHANGED lockVars
  BY <1>8 DEF Unregister, RegisterProvider
<1>9. CASE Shutdown \/ Drained \/ UNCHANGED dataVars
  BY <1>9 DEF Shutdown, Drained, dataVars
<1>10. QED
  BY <1>1, <1>2, <1>3, <1>4, <1>5, <1>6, <1>7, <1>8, <1>9 DEF DataNext, HandlerStep

(***************************************************************************)
(* The inductive invariant.  A registered provider is one that was made,   *)
(* and while a call is on, its handler reads: nobody writes.               *)
(***************************************************************************)

DataInv == DataTypeOK /\ Exclusion /\ CallsAreOnRegisteredProviders

\* What the invariant says of one handler.
HandlerOK(h) ==
    /\ request[h] \in Entities \cup {None}
    /\ call[h] \in 1 .. MaxProviders \cup {None}
    /\ request[h] = None <=> mode[h] = Idle
    /\ call[h] # None => mode[h] = "reading" /\ registry[request[h]] = call[h]

LEMMA ByHandler ==
    DataInv <=> /\ LockTypeOK /\ Exclusion
                /\ registry \in [Entities -> {Absent, Bare} \cup 1 .. MaxProviders]
                /\ created \in 0 .. MaxProviders
                /\ request \in [Handlers -> Entities \cup {None}]
                /\ call \in [Handlers -> 1 .. MaxProviders \cup {None}]
                /\ \A h \in Handlers : HandlerOK(h)
                /\ server \in {"serving", "draining", "returned"}
                /\ server = "returned" => \A h \in Handlers : request[h] = None
  BY DEF DataInv, DataTypeOK, CallsAreOnRegisteredProviders, HandlerOK

\* The state of the registry and of the server after a step.
RestOK ==
    /\ registry \in [Entities -> {Absent, Bare} \cup 1 .. MaxProviders]
    /\ created \in 0 .. MaxProviders
    /\ request \in [Handlers -> Entities \cup {None}]
    /\ call \in [Handlers -> 1 .. MaxProviders \cup {None}]
    /\ \A h \in Handlers : HandlerOK(h)
    /\ server \in {"serving", "draining", "returned"}
    /\ server = "returned" => \A h \in Handlers : request[h] = None

\* A handler begins, waits, calls, answers or is dropped.
LEMMA HandlerSteps ==
    ASSUME DataInv, NEW h \in Handlers,
           \/ \E e \in Entities : Arrive(h, e)
           \/ HandlerStep(h) \/ ProviderAnswers(h) \/ Disconnect(h)
    PROVE  RestOK'
<1> USE WriterAssumption, DistinctAssumption, MaxProvidersAssumption
    DEF Handlers, Idle, LockTypeOK
<1>0. RestOK /\ LockTypeOK
  BY ByHandler DEF RestOK
<1>1. ASSUME NEW e \in Entities, Arrive(h, e)
      PROVE  RestOK'
  BY <1>0, <1>1 DEF Arrive, Enqueue, RestOK, HandlerOK
<1>2. CASE Enter(h)
  <2>1. /\ mode[h] = "wantRead" /\ mode' = [mode EXCEPT ![h] = "reading"]
        /\ UNCHANGED <<registry, created, request, call, server>>
    BY <1>2 DEF Enter, GrantRead, requestVars
  <2>2. QED
    BY <1>0, <2>1 DEF RestOK, HandlerOK
<1>3. CASE CallProvider(h)
  <2>1. registry[request[h]] \in 1 .. MaxProviders
    BY <1>0, <1>3 DEF CallProvider, RestOK, HandlerOK
  <2>2. /\ mode[h] = "reading" /\ mode' = mode
        /\ call' = [call EXCEPT ![h] = registry[request[h]]]
        /\ registry' = registry /\ created' = created
        /\ request' = request /\ server' = server
    BY <1>3 DEF CallProvider, lockVars
  <2>3. call' \in [Handlers -> 1 .. MaxProviders \cup {None}]
    BY <1>0, <2>1, <2>2 DEF RestOK
  <2>4. ASSUME NEW g \in Handlers
        PROVE  HandlerOK(g)'
    BY <1>0, <2>1, <2>2, <2>3 DEF RestOK, HandlerOK
  <2>5. QED
    BY <1>0, <2>2, <2>3, <2>4 DEF RestOK
<1>4. CASE /\ request' = [request EXCEPT ![h] = None]
           /\ call' = [call EXCEPT ![h] = None]
           /\ mode' = [mode EXCEPT ![h] = Idle]
           /\ UNCHANGED <<registry, created, server>>
  BY <1>0, <1>4 DEF RestOK, HandlerOK
<1>5. QED
  BY <1>1, <1>2, <1>3, <1>4
     DEF HandlerStep, LookupFails, ProviderAnswers, Disconnect, Respond, CancelWait, Unlock

\* While somebody writes no provider is being called.
LEMMA NoCallsUnderWriter ==
    ASSUME DataInv, mode[Writer] = "writing", NEW h \in Handlers
    PROVE  call[h] = None
  BY WriterAssumption
     DEF DataInv, DataTypeOK, LockTypeOK, Exclusion, Readers, Writers, Handlers

\* The writer and the shutdown.
LEMMA OtherSteps ==
    ASSUME DataInv,
           \/ WriterAsks \/ WriterEnters \/ WriterLeaves
           \/ \E e \in Entities : Unregister(e) \/ RegisterProvider(e)
           \/ Shutdown \/ Drained \/ UNCHANGED dataVars
    PROVE  RestOK'
<1> USE WriterAssumption, DistinctAssumption, MaxProvidersAssumption
    DEF Handlers, LockTypeOK
<1>0. RestOK /\ LockTypeOK
  BY ByHandler DEF RestOK
<1>1. CASE WriterAsks \/ WriterEnters \/ WriterLeaves
  BY <1>0, <1>1 DEF WriterAsks, WriterEnters, WriterLeaves, Enqueue, GrantWrite, Unlock,
                    requestVars, RestOK, HandlerOK
<1>2. ASSUME NEW e \in Entities, Unregister(e)
      PROVE  RestOK'
  <2>1. \A h \in Handlers : call[h] = None
    BY <1>2, NoCallsUnderWriter DEF Unregister
  <2>2. QED
    BY <1>0, <1>2, <2>1 DEF Unregister, lockVars, requestVars, RestOK, HandlerOK
<1>3. ASSUME NEW e \in Entities, RegisterProvider(e)
      PROVE  RestOK'
  <2>1. \A h \in Handlers : call[h] = None
    BY <1>3, NoCallsUnderWriter DEF RegisterProvider
  <2>2. created + 1 \in 1 .. MaxProviders
    BY <1>0, <1>3 DEF RegisterProvider, RestOK
  <2>3. QED
    BY <1>0, <1>3, <2>1, <2>2 DEF RegisterProvider, lockVars, requestVars, RestOK, HandlerOK
<1>4. CASE Shutdown \/ Drained
  BY <1>0, <1>4 DEF Shutdown, Drained, lockVars, requestVars, RestOK, HandlerOK
<1>5. CASE UNCHANGED dataVars
  BY <1>0, <1>5 DEF dataVars, lockVars, requestVars, RestOK, HandlerOK
<1>6. QED
  BY <1>1, <1>2, <1>3, <1>4, <1>5

LEMMA DataStep == DataInv /\ [DataNext]_dataVars => DataInv'
<1> SUFFICES ASSUME DataInv, [DataNext]_dataVars PROVE DataInv'
  OBVIOUS
<1>1. LockTypeOK' /\ Exclusion'
  BY StepsUseTheLock, LockTypeStep, ExclusionStep DEF DataInv, DataTypeOK
<1>2. RestOK'
  BY HandlerSteps, OtherSteps DEF DataNext
<1>3. QED
  BY <1>1, <1>2 DEF RestOK, HandlerOK, DataInv, DataTypeOK, CallsAreOnRegisteredProviders

LEMMA DataInvInit == DataInit => DataInv
  BY WriterAssumption, MaxProvidersAssumption, DistinctAssumption
     DEF DataInit, LockInit, DataInv, DataTypeOK, LockTypeOK, Exclusion, Readers, Writers,
         CallsAreOnRegisteredProviders, Mode, Idle, Waits, Holds, Handlers

\* A handler that calls a provider calls the one that is registered, and holds the
\* guard meanwhile.
THEOREM CallsCorrect == DataSpec => [](DataTypeOK /\ CallsAreOnRegisteredProviders)
<1>1. DataInv => DataTypeOK /\ CallsAreOnRegisteredProviders
  BY DEF DataInv
<1>2. QED
  BY <1>1, DataInvInit, DataStep, PTL DEF DataSpec

\* The types of the data routes: DataTypeOK is a part of the invariant that shows the
\* theorem above.
THEOREM DataTypeCorrect == DataSpec => []DataTypeOK
  BY CallsCorrect, PTL

(***************************************************************************)
(* Who waits for whom.  The handlers and the writer use the lock as        *)
(* RwLock says, so its queue is in order and somebody is first; what the   *)
(* first waits for is a guard, whose holder goes on unless it awaits a     *)
(* provider that hangs.                                                    *)
(***************************************************************************)

\* The requests, the writer and the shutdown are users of an RwLock: all that holds of
\* the lock holds here.
THEOREM DataUsesLock == DataSpec => LockSpec
<1>1. DataInit => LockInit
  BY DEF DataInit
<1>2. QED
  BY <1>1, StepsUseTheLock, PTL DEF DataSpec, LockSpec

\* Handlers read and the writer writes.
RolesOK ==
    /\ \A h \in Handlers : mode[h] \in {Idle, "wantRead", "reading"}
    /\ mode[Writer] \in {Idle, "wantWrite", "writing"}

LEMMA RolesStep == DataInv /\ RolesOK /\ [DataNext]_dataVars => RolesOK'
<1> SUFFICES ASSUME DataInv, RolesOK, [DataNext]_dataVars
             PROVE  RolesOK'
  OBVIOUS
<1>1. mode \in [Tasks -> Mode] /\ Writer \in Tasks /\ Handlers \subseteq Tasks \ {Writer}
  BY WriterAssumption DEF DataInv, DataTypeOK, LockTypeOK, Handlers
<1> USE DEF RolesOK, Idle
<1>2. ASSUME NEW h \in Handlers, NEW e \in Entities, Arrive(h, e)
      PROVE  RolesOK'
  BY <1>1, <1>2 DEF Arrive, Enqueue
<1>3. ASSUME NEW h \in Handlers, Enter(h)
      PROVE  RolesOK'
  BY <1>1, <1>3 DEF Enter, GrantRead
<1>4. ASSUME NEW h \in Handlers, LookupFails(h) \/ ProviderAnswers(h) \/ Disconnect(h)
      PROVE  RolesOK'
  BY <1>1, <1>4 DEF LookupFails, ProviderAnswers, Disconnect, Respond, CancelWait, Unlock
<1>5. CASE WriterAsks
  BY <1>1, <1>5 DEF WriterAsks, Enqueue
<1>6. CASE WriterEnters
  BY <1>1, <1>6 DEF WriterEnters, GrantWrite
<1>7. CASE WriterLeaves
  BY <1>1, <1>7 DEF WriterLeaves, Unlock
<1>8. ASSUME \/ \E h \in Handlers : CallProvider(h)
             \/ \E e \in Entities : Unregister(e) \/ RegisterProvider(e)
             \/ Shutdown \/ Drained \/ UNCHANGED dataVars
      PROVE  RolesOK'
  <2>1. mode' = mode
    BY <1>8 DEF CallProvider, Unregister, RegisterProvider, Shutdown, Drained, dataVars, lockVars
  <2>2. QED
    BY <2>1
<1>9. QED
  BY <1>2, <1>3, <1>4, <1>5, <1>6, <1>7, <1>8 DEF DataNext, HandlerStep

\* The invariant of the data routes, of the queue and of the roles.
WaitInv == DataInv /\ QueueInv /\ RolesOK

LEMMA WaitInvInit == DataInit => WaitInv
<1> SUFFICES ASSUME DataInit PROVE WaitInv
  OBVIOUS
<1>1. DataInv
  BY DataInvInit
<1>2. QueueInv
  BY QueueInvInit DEF DataInit
<1>3. RolesOK
  BY WriterAssumption DEF DataInit, LockInit, RolesOK, Handlers
<1>4. QED
  BY <1>1, <1>2, <1>3 DEF WaitInv

LEMMA WaitInvStep == WaitInv /\ [DataNext]_dataVars => WaitInv'
  BY DataStep, RolesStep, StepsUseTheLock, QueueInvStep DEF WaitInv

LEMMA SomebodyIsDue == WaitInv => OnlyHungProvidersBlock
<1> SUFFICES ASSUME WaitInv,
                    Waiting # {} \/ server = "draining",
                    \A h \in Handlers : call[h] # None => request[h] \notin Hung
             PROVE  DueStep
  BY DEF OnlyHungProvidersBlock
<1>1. /\ Tasks = Handlers \cup {Writer} /\ RolesOK
      /\ mode \in [Tasks -> Mode]
  BY WriterAssumption DEF WaitInv, DataInv, DataTypeOK, LockTypeOK, Handlers
<1>2. ASSUME NEW h \in Handlers, mode[h] = "reading"
      PROVE  DueStep
  BY <1>2 DEF DueStep
<1>3. CASE mode[Writer] = "writing"
  BY <1>3 DEF DueStep
<1>4. CASE mode[Writer] # "writing" /\ \A h \in Handlers : mode[h] # "reading"
  <2>1. Readers = {} /\ Writers = {}
    BY <1>1, <1>4 DEF Readers, Writers, RolesOK, Idle
  <2>2. CASE Waiting # {}
    <3>1. PICK t \in Waiting : MayEnter(t)
      BY <2>1, <2>2, QueueInvNeverIdle DEF WaitInv, NeverIdle
    <3>2. t = Writer => mode[t] = "wantWrite"
      BY <1>1, <3>1 DEF RolesOK, Waiting, Waits, Idle
    <3>3. t # Writer => t \in Handlers /\ mode[t] = "wantRead"
      BY <1>1, <3>1 DEF RolesOK, Waiting, Waits, Idle
    <3>4. QED
      BY <3>1, <3>2, <3>3 DEF DueStep
  <2>3. CASE Waiting = {}
    <3>1. \A h \in Handlers : mode[h] = Idle
      BY <1>1, <1>4, <2>3 DEF RolesOK, Waiting, Waits
    <3>2. \A h \in Handlers : request[h] = None
      BY <3>1 DEF WaitInv, DataInv, DataTypeOK
    <3>3. QED
      BY <2>3, <3>2 DEF DueStep
  <2>4. QED
    BY <2>2, <2>3
<1>5. QED
  BY <1>2, <1>3, <1>4

LEMMA ReadersPass == WaitInv => ReadersPassHungProviders
<1> SUFFICES ASSUME WaitInv, mode[Writer] = Idle, Waiting # {}
             PROVE  \E h \in Handlers : mode[h] = "wantRead" /\ MayEnter(h)
  BY DEF ReadersPassHungProviders
<1>1. Tasks = Handlers \cup {Writer} /\ RolesOK
  BY WriterAssumption DEF WaitInv, Handlers
<1>2. \A t \in Tasks : mode[t] \notin {"wantWrite", "writing"}
  BY <1>1 DEF RolesOK, Idle
<1>3. PICK t \in Waiting : MayEnter(t)
  BY <1>2, ReadersGoTogether DEF WaitInv
<1>4. t \in Handlers /\ mode[t] = "wantRead"
  BY <1>1, <1>2, <1>3 DEF Waiting, Waits, Idle
<1>5. QED
  BY <1>3, <1>4

\* No deadlock: while a request, the writer or the shutdown waits, a step is due or the
\* client of a hung provider is waited for.
THEOREM OnlyHungProvidersBlockCorrect == DataSpec => []OnlyHungProvidersBlock
  BY WaitInvInit, WaitInvStep, SomebodyIsDue, PTL DEF DataSpec

\* Where nobody writes, a waiting request can enter however many providers hang.
THEOREM ReadersPassCorrect == DataSpec => []ReadersPassHungProviders
  BY WaitInvInit, WaitInvStep, ReadersPass, PTL DEF DataSpec


(***************************************************************************)
(* The data provider.                                                      *)
(***************************************************************************)

\* A set of natural numbers has a least one: of the intervals that end below its
\* members one has no other inside.
LEMMA LeastNumber ==
    ASSUME NEW S \in SUBSET Nat, S # {}
    PROVE  \E m \in S : \A k \in S : m <= k
<1> DEFINE Below(n) == 1 .. n
           T == {Below(n) : n \in S}
<1>1. T \subseteq FiniteSubsetsOf(Nat) /\ T # {}
  <2>1. ASSUME NEW n \in S PROVE Below(n) \in FiniteSubsetsOf(Nat)
    BY FS_Interval DEF FiniteSubsetsOf
  <2>2. QED
    BY <2>1
<1> HIDE DEF T
<1>2. PICK x \in T : \A y \in T : <<y, x>> \notin StrictSubsetOrdering(Nat)
  BY <1>1, FS_StrictSubsetOrderingWellFounded, WFMin
<1>3. PICK m \in S : x = Below(m)
  BY DEF T
<1>4. ASSUME NEW k \in S PROVE m <= k
  <2>1. CASE k < m
    <3>1. Below(k) \in T
      BY DEF T
    <3>2. Below(k) \subseteq Nat /\ Below(m) \subseteq Nat /\ m \in Below(m) /\ m \notin Below(k)
          /\ Below(k) \subseteq Below(m)
      BY <2>1
    <3> HIDE DEF Below
    <3>3. <<Below(k), Below(m)>> \in StrictSubsetOrdering(Nat)
      BY <3>2 DEF StrictSubsetOrdering
    <3>4. QED
      BY <1>2, <1>3, <3>1, <3>3
  <2>2. QED
    BY <2>1
<1>5. QED
  BY <1>4

LEMMA ListedAreResources ==
    ASSUME ProviderTypeOK
    PROVE  /\ \A i \in DOMAIN resources : resources[i] \in Resource
           /\ resources # <<>> => resources[Len(resources)] \in Resource
           /\ DOMAIN resources \subseteq Nat
<1>1. resources \in Seq(Resource)
  BY DEF ProviderTypeOK
<1>2. DOMAIN resources = 1 .. Len(resources) /\ Len(resources) \in Nat
      /\ (resources # <<>> => Len(resources) # 0)
  BY <1>1, LenProperties, EmptySeq
<1>3. \A i \in 1 .. Len(resources) : resources[i] \in Resource
  BY <1>1, ElementOfSeq
<1>4. QED
  BY <1>2, <1>3

\* The builder keeps the types.
LEMMA ProviderTypeStep ==
    ASSUME ProviderTypeOK, [ProviderNext]_providerVars
    PROVE  ProviderTypeOK'
<1> USE MaxResourcesAssumption
<1>1. ASSUME NEW id \in DataIds, NEW category \in CategoryNames,
             ReadData(id, category) \/ WriteData(id, category) \/ ReadWriteData(id, category)
      PROVE  ProviderTypeOK'
  <2>1. PICK readable \in BOOLEAN, writable \in BOOLEAN :
            AddData(id, category, readable, writable)
    BY <1>1 DEF ReadData, WriteData, ReadWriteData
  <2> DEFINE resource ==
           [id |-> id, category |-> category, groups |-> {}, tags |-> {},
            translation |-> Nothing, schema |-> "derived",
            readable |-> readable, writable |-> writable]
  <2>2. resource \in Resource
    BY DEF Resource
  <2>3. resources' = Append(resources, resource) /\ built' = built
        /\ Len(resources) < MaxResources
    BY <2>1 DEF AddData
  <2> HIDE DEF resource
  <2>4. QED
    BY <2>2, <2>3 DEF ProviderTypeOK
<1>2. ASSUME NEW last \in Resource,
             resources # <<>>, built' = built,
             resources' = [resources EXCEPT ![Len(resources)] = last]
      PROVE  ProviderTypeOK'
  BY <1>2, ExceptSeq DEF ProviderTypeOK
<1>3. ASSUME NEW groups \in SUBSET GroupNames, SetGroups(groups)
      PROVE  ProviderTypeOK'
  <2>1. [resources[Len(resources)] EXCEPT !.groups = groups] \in Resource
    BY <1>3, ListedAreResources DEF SetGroups, SetLast, Resource
  <2>2. QED
    BY <1>2, <1>3, <2>1 DEF SetGroups, SetLast
<1>4. ASSUME NEW tags \in SUBSET TagNames, SetTags(tags)
      PROVE  ProviderTypeOK'
  <2>1. [resources[Len(resources)] EXCEPT !.tags = tags] \in Resource
    BY <1>4, ListedAreResources DEF SetTags, SetLast, Resource
  <2>2. QED
    BY <1>2, <1>4, <2>1 DEF SetTags, SetLast
<1>5. ASSUME NEW translation \in TranslationIds, SetTranslation(translation)
      PROVE  ProviderTypeOK'
  <2>1. [resources[Len(resources)] EXCEPT !.translation = translation] \in Resource
    BY <1>5, ListedAreResources DEF SetTranslation, SetLast, Resource
  <2>2. QED
    BY <1>2, <1>5, <2>1 DEF SetTranslation, SetLast
<1>6. CASE SetSchema
  <2>1. [resources[Len(resources)] EXCEPT !.schema = "given"] \in Resource
    BY <1>6, ListedAreResources DEF SetSchema, SetLast, Resource
  <2>2. QED
    BY <1>2, <1>6, <2>1 DEF SetSchema, SetLast
<1>7. CASE Build \/ UNCHANGED providerVars
  BY <1>7 DEF Build, providerVars, ProviderTypeOK
<1>8. QED
  BY <1>1, <1>3, <1>4, <1>5, <1>6, <1>7 DEF ProviderNext

\* What is built has no id twice.
IdsAreDistinct == built = "ok" => ~Duplicated

LEMMA DistinctStep ==
    ASSUME IdsAreDistinct, [ProviderNext]_providerVars
    PROVE  IdsAreDistinct'
<1>1. CASE built' = built /\ built # "ok"
  BY <1>1 DEF IdsAreDistinct
<1>2. CASE Build
  BY <1>2 DEF Build, IdsAreDistinct, Duplicated
<1>3. CASE UNCHANGED providerVars
  BY <1>3 DEF providerVars, IdsAreDistinct, Duplicated
<1>4. QED
  BY <1>1, <1>2, <1>3
     DEF ProviderNext, ReadData, WriteData, ReadWriteData, AddData, SetGroups, SetTags,
         SetTranslation, SetSchema, SetLast

LEMMA IdsHold ==
    ASSUME ProviderTypeOK, IdsAreDistinct
    PROVE  IdsNameOneResource
<1> SUFFICES ASSUME built = "ok", NEW i \in DOMAIN resources
             PROVE  /\ Find(resources[i].id) = {i}
                    /\ ReadAnswers(resources[i].id) # {"NotFound"}
                    /\ WriteAnswers(resources[i].id, TRUE) # {"NotFound"}
                    /\ SchemaOfRead(resources[i].id, TRUE) = {resources[i].schema}
  BY DEF IdsNameOneResource, List
<1>1. Find(resources[i].id) = {i}
  BY DEF Find, IdsAreDistinct, Duplicated
<1>2. resources[i].writable \in BOOLEAN
  BY ListedAreResources DEF Resource
<1>3. ReadAnswers(resources[i].id) = {IF resources[i].readable THEN "resource" ELSE "Internal"}
  BY <1>1 DEF ReadAnswers
<1>4. WriteAnswers(resources[i].id, TRUE) =
          {IF resources[i].writable THEN "resource" ELSE "ReadOnly"}
  BY <1>1, <1>2 DEF WriteAnswers
<1>5. SchemaOfRead(resources[i].id, TRUE) = {resources[i].schema}
  BY <1>1 DEF SchemaOfRead
<1>6. QED
  BY <1>1, <1>3, <1>4, <1>5

\* In a provider that was built, what is listed is what is read and written.
THEOREM IdsCorrect == ProviderSpec => []IdsNameOneResource
<1>1. ProviderInit => ProviderTypeOK /\ IdsAreDistinct
  BY MaxResourcesAssumption DEF ProviderInit, ProviderTypeOK, IdsAreDistinct
<1>2. QED
  BY <1>1, ProviderTypeStep, DistinctStep, IdsHold, PTL DEF ProviderSpec

\* What goes by the first resource of a kind finds one wherever there is one.
LEMMA FirstOne ==
    ASSUME ProviderTypeOK, NEW S \in SUBSET DOMAIN resources, NEW i \in S
    PROVE  \E m \in S : m <= i /\ \A j \in 1 .. m - 1 : j \notin S
<1>1. S \in SUBSET Nat
  BY ListedAreResources
<1>2. PICK m \in S : \A k \in S : m <= k
  BY <1>1, LeastNumber
<1>3. QED
  BY <1>1, <1>2

\* Two firsts of a kind are one.
LEMMA OneFirst ==
    ASSUME ProviderTypeOK, NEW m \in DOMAIN resources, NEW n \in DOMAIN resources,
           n \notin 1 .. m - 1, m \notin 1 .. n - 1
    PROVE  m = n
<1>1. DOMAIN resources = 1 .. Len(resources) /\ Len(resources) \in Nat
  BY LenProperties DEF ProviderTypeOK
<1>2. QED
  BY <1>1

LEMMA CategoriesLead ==
    ASSUME ProviderTypeOK
    PROVE  /\ \A i \in DOMAIN resources :
                 \E info \in Categories :
                    i \in List([NoFilter EXCEPT !.categories = {info.category}])
           /\ \A a, b \in Categories : a.category = b.category => a = b
<1> DEFINE First(i) == \A j \in 1 .. i - 1 : resources[j].category # resources[i].category
           Info(i) == [category |-> resources[i].category,
                       translation |-> resources[i].translation]
<1>1. Categories = {Info(i) : i \in {i \in DOMAIN resources : First(i)}}
  BY DEF Categories, CategoriesOf
<1>2. ASSUME NEW i \in DOMAIN resources
      PROVE  \E info \in Categories :
                i \in List([NoFilter EXCEPT !.categories = {info.category}])
  <2> DEFINE S == {j \in DOMAIN resources : resources[j].category = resources[i].category}
  <2>1. PICK m \in S : \A j \in 1 .. m - 1 : j \notin S
    BY FirstOne
  <2>2. m \in DOMAIN resources /\ resources[m].category = resources[i].category
    BY <2>1
  <2>3. 1 .. m - 1 \subseteq DOMAIN resources
    BY <2>2, LenProperties DEF ProviderTypeOK
  <2>4. First(m)
    BY <2>1, <2>2, <2>3
  <2>5. Info(m) \in Categories
    BY <1>1, <2>2, <2>4
  <2>6. i \in List([NoFilter EXCEPT !.categories = {Info(m).category}])
    BY <2>2 DEF List, MatchesFilter, NoFilter
  <2>7. QED
    BY <2>5, <2>6
<1>3. ASSUME NEW a \in Categories, NEW b \in Categories, a.category = b.category
      PROVE  a = b
  <2>1. PICK m \in DOMAIN resources : First(m) /\ a = Info(m)
    BY <1>1
  <2>2. PICK n \in DOMAIN resources : First(n) /\ b = Info(n)
    BY <1>1
  <2>3. resources[m].category = resources[n].category
    BY <1>3, <2>1, <2>2
  <2>4. n \notin 1 .. m - 1 /\ m \notin 1 .. n - 1
    BY <2>1, <2>2, <2>3
  <2>5. QED
    BY <2>1, <2>2, <2>4, OneFirst
<1>4. QED
  BY <1>2, <1>3

LEMMA GroupsLead ==
    ASSUME ProviderTypeOK
    PROVE  /\ \A info \in Groups(CategoryNames) :
                 List([NoFilter EXCEPT !.categories = {info.category},
                                       !.groups = {info.id}]) # {}
           /\ \A i \in DOMAIN resources : \A g \in resources[i].groups :
                 [id |-> g, category |-> resources[i].category]
                    \in Groups({resources[i].category})
           /\ \A a, b \in Groups(CategoryNames) : a.id = b.id => a = b
<1>1. ASSUME NEW info \in Groups(CategoryNames)
      PROVE  List([NoFilter EXCEPT !.categories = {info.category},
                                   !.groups = {info.id}]) # {}
  <2>1. PICK i \in DOMAIN resources : /\ info.id \in resources[i].groups
                                      /\ info.category = resources[i].category
    BY DEF Groups, GroupsOf
  <2>2. i \in List([NoFilter EXCEPT !.categories = {info.category}, !.groups = {info.id}])
    BY <2>1 DEF List, MatchesFilter, NoFilter
  <2>3. QED
    BY <2>2
<1>2. ASSUME NEW i \in DOMAIN resources, NEW g \in resources[i].groups
      PROVE  [id |-> g, category |-> resources[i].category] \in Groups({resources[i].category})
  <2> DEFINE c == resources[i].category
             S == {j \in DOMAIN resources : resources[j].category = c /\ g \in resources[j].groups}
  <2>1. g \in GroupNames
    BY ListedAreResources DEF Resource
  <2>2. PICK m \in S : \A j \in 1 .. m - 1 : j \notin S
    BY FirstOne
  <2>3. m \in DOMAIN resources /\ resources[m].category = c /\ g \in resources[m].groups
    BY <2>2
  <2>4. 1 .. m - 1 \subseteq DOMAIN resources
    BY <2>3, LenProperties DEF ProviderTypeOK
  <2>5. \A j \in 1 .. m - 1 : resources[j].category \in {c} => g \notin resources[j].groups
    BY <2>2, <2>4
  <2>6. QED
    BY <2>1, <2>3, <2>5 DEF Groups, GroupsOf
<1>3. ASSUME NEW a \in Groups(CategoryNames), NEW b \in Groups(CategoryNames), a.id = b.id
      PROVE  a = b
  <2>1. a \in [id : GroupNames, category : CategoryNames]
        /\ b \in [id : GroupNames, category : CategoryNames]
    BY DEF Groups, GroupsOf
  <2>2. PICK m \in DOMAIN resources :
           /\ a.id \in resources[m].groups
           /\ a.category = resources[m].category
           /\ \A j \in 1 .. m - 1 :
                 resources[j].category \in CategoryNames => a.id \notin resources[j].groups
    BY DEF Groups, GroupsOf
  <2>3. PICK n \in DOMAIN resources :
           /\ b.id \in resources[n].groups
           /\ b.category = resources[n].category
           /\ \A j \in 1 .. n - 1 :
                 resources[j].category \in CategoryNames => b.id \notin resources[j].groups
    BY DEF Groups, GroupsOf
  <2>4. resources[m].category \in CategoryNames /\ resources[n].category \in CategoryNames
    BY ListedAreResources DEF Resource
  <2>5. n \notin 1 .. m - 1 /\ m \notin 1 .. n - 1
    BY <1>3, <2>2, <2>3, <2>4
  <2>6. m = n
    BY <2>5, OneFirst
  <2>7. QED
    BY <1>3, <2>1, <2>2, <2>3, <2>6
<1>4. QED
  BY <1>1, <1>2, <1>3

\* Categories and groups lead to the data, while the provider is built and after.
THEOREM GroupsCorrect == ProviderSpec => []GroupsLeadToData
<1>1. ProviderInit => ProviderTypeOK
  BY MaxResourcesAssumption DEF ProviderInit, ProviderTypeOK
<1>2. ProviderTypeOK => GroupsLeadToData
  BY CategoriesLead, GroupsLead DEF GroupsLeadToData
<1>3. QED
  BY <1>1, <1>2, ProviderTypeStep, PTL DEF ProviderSpec

=============================================================================
