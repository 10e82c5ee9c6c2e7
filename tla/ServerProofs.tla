---------------------------- MODULE ServerProofs ----------------------------
(***************************************************************************)
(* Who gets in and who is waited for, for every set of requests, tokens    *)
(* and paths and every policy; and the handshake slots of the TLS listener *)
(* under it, for every number of slots and every set of connections,       *)
(* finite or not.                                                          *)
(***************************************************************************)
EXTENDS Server, TlsListener, Integers, FiniteSetTheorems, TLAPS

(***************************************************************************)
(* The inductive invariant: what the layers still ahead of a request say   *)
(* of the layers behind it.                                                *)
(***************************************************************************)

\* The first layer let the request in.
Cleared(q) ==
    IF config.authn = "NoAuth" THEN q.identity = "()"
                               ELSE q.identity = q.token /\ q.fresh

\* The policy, if there is one, allows what the request asks for.
Permitted(q) == config.policy => <<q.token, q.path>> \in Permits

OnItsWay(q) ==
    \/ q.todo = <<"user", "authn", "authz", Target(q.path)>>
    \/ q.todo = <<"authn", "authz", Target(q.path)>>
    \/ q.todo = <<"authz", Target(q.path)>> /\ Cleared(q)
    \/ q.todo = <<Target(q.path)>> /\ Cleared(q) /\ Permitted(q)

RightAnswer(q) ==
    /\ q.answer \in {"routes", "service", "404"} =>
          /\ config.authn = "Jwt" => q.fresh
          /\ config.policy => <<q.token, q.path>> \in Permits
    /\ q.answer = "401" => config.authn = "Jwt" /\ q.token \notin valid
    /\ q.answer = "403" => config.policy /\ q.fresh

RequestOK(q) ==
    /\ q.at = "inside" => OnItsWay(q)
    /\ q.at # "closed" => q.answer = None
    /\ ~q.fresh => q.token \notin valid
    /\ RightAnswer(q)

AdmissionInv == ServerTypeOK /\ \A r \in Requests : RequestOK(req[r])

\* Nothing else of the server changes while a request moves on.
MovesOn(r, q) ==
    /\ UNCHANGED <<config, lifeVars, valid>>
    /\ req' = [req EXCEPT ![r] = q]

\* To keep the invariant it is enough that the one request that moves does.
LEMMA OneRequestMoves ==
    ASSUME AdmissionInv, NEW r \in Requests, NEW q \in Request, MovesOn(r, q), RequestOK(q)
    PROVE  AdmissionInv'
<1>1. ServerTypeOK'
  BY DEF AdmissionInv, ServerTypeOK, MovesOn, lifeVars, fileVars
<1>2. ASSUME NEW s \in Requests
      PROVE  RequestOK(req[s])'
  <2>1. RequestOK(req'[s])
    BY DEF AdmissionInv, ServerTypeOK, MovesOn
  <2>2. QED
    BY <2>1 DEF MovesOn, RequestOK, RightAnswer, OnItsWay, Cleared, Permitted
<1>3. QED
  BY <1>1, <1>2 DEF AdmissionInv

\* A policy comes only with an authenticator.
LEMMA ConfigFacts ==
    ASSUME config \in Config
    PROVE  /\ config.authn \in {"NoAuth", "Jwt"}
           /\ config.policy \in BOOLEAN
           /\ config.policy => config.authn = "Jwt"
  BY DEF Config, AuthArgs

\* A connection, a new request and the ways a request ends without an answer.
LEMMA ClientSteps ==
    ASSUME AdmissionInv, NEW r \in Requests,
           \/ Connect(r) \/ CloseIdle(r) \/ Disconnect(r)
           \/ \E token \in Tokens, path \in Paths : Receive(r, token, path)
    PROVE  AdmissionInv'
<1> USE TokensAssumption, NoneAssumption DEF Answers
<1>0. req[r] \in Request /\ RequestOK(req[r]) /\ valid \subseteq Issued
  BY DEF AdmissionInv, ServerTypeOK
<1>1. CASE Connect(r)
  <2> DEFINE q == [req[r] EXCEPT !.at = "connected"]
  <2>1. q \in Request /\ RequestOK(q)
    BY <1>0, <1>1 DEF Connect, Request, RequestOK, RightAnswer
  <2>2. MovesOn(r, q)
    BY <1>1 DEF Connect, MovesOn
  <2>3. QED
    BY <2>1, <2>2, OneRequestMoves
<1>2. CASE CloseIdle(r)
  <2> DEFINE q == [req[r] EXCEPT !.at = "closed"]
  <2>1. q \in Request /\ RequestOK(q)
    BY <1>0, <1>2 DEF CloseIdle, Request, RequestOK, RightAnswer
  <2>2. MovesOn(r, q)
    BY <1>2 DEF CloseIdle, MovesOn
  <2>3. QED
    BY <2>1, <2>2, OneRequestMoves
<1>3. CASE Disconnect(r)
  <2> DEFINE q == [NoRequest EXCEPT !.at = "closed"]
  <2>1. NoRequest \in Request
    BY DEF NoRequest, Request
  <2>2. q \in Request /\ RequestOK(q)
    BY <1>0, <2>1 DEF NoRequest, Request, RequestOK, RightAnswer
  <2>3. MovesOn(r, q)
    BY <1>3 DEF Disconnect, MovesOn
  <2>4. QED
    BY <2>2, <2>3, OneRequestMoves
<1>4. ASSUME NEW token \in Tokens, NEW path \in Paths, Receive(r, token, path)
      PROVE  AdmissionInv'
  <2> DEFINE q == [req[r] EXCEPT !.at = "inside", !.token = token, !.path = path,
                                 !.todo = Pipeline(path), !.fresh = token \in valid]
  <2>1. Pipeline(path) \in Seq(Layers)
    BY DEF Pipeline, Layers, Target
  <2> DEFINE fresh == token \in valid
  <2>2. q \in Request
    <3>1. fresh \in BOOLEAN
      OBVIOUS
    <3>2. q = [req[r] EXCEPT !.at = "inside", !.token = token, !.path = path,
                             !.todo = Pipeline(path), !.fresh = fresh]
      OBVIOUS
    <3> HIDE DEF fresh
    <3>3. QED
      BY <1>0, <2>1, <3>1, <3>2 DEF Request
  <2>3. RequestOK(q)
    BY <1>0, <1>4, <2>1 DEF Receive, Request, RequestOK, RightAnswer, OnItsWay, Pipeline
  <2>4. MovesOn(r, q)
    BY <1>4 DEF Receive, MovesOn
  <2>5. QED
    BY <2>2, <2>3, <2>4, OneRequestMoves
<1>5. QED
  BY <1>1, <1>2, <1>3, <1>4

\* A layer lets the request on or answers it.
LEMMA LayerSteps ==
    ASSUME AdmissionInv, NEW r \in Requests, LayerStep(r)
    PROVE  AdmissionInv'
<1> USE TokensAssumption, NoneAssumption DEF Answers
<1> DEFINE q == req[r]
           Passed(identity) == [q EXCEPT !.todo = Tail(q.todo), !.identity = identity]
           Answered(answer) == [q EXCEPT !.at = "closed", !.answer = answer,
                                         !.todo = <<>>, !.identity = None]
<1>0. /\ q \in Request
      /\ RequestOK(q)
      /\ valid \subseteq Issued
      /\ config.authn \in {"NoAuth", "Jwt"}
      /\ config.policy \in BOOLEAN
      /\ config.policy => config.authn = "Jwt"
  BY ConfigFacts DEF AdmissionInv, ServerTypeOK
<1>1. q.at = "inside" /\ UNCHANGED <<config, lifeVars, valid>>
  BY DEF LayerStep, UserLayer, Authenticate, Authorize, Handle, In
<1>2. Target(q.path) \in {"service", "routes"}
  BY DEF Target
<1>3. OnItsWay(q) /\ q.answer = None
  BY <1>0, <1>1 DEF RequestOK
<1>4. ASSUME NEW identity \in Tokens \cup {"()", None}, Pass(r, identity),
             OnItsWay(Passed(identity))
      PROVE  AdmissionInv'
  <2>1. q.todo \in Seq(Layers) /\ Len(q.todo) # 0
    <3>1. q.todo \in Seq(Layers)
      BY <1>0 DEF Request
    <3>2. \/ q.todo = <<"user", "authn", "authz", Target(q.path)>>
          \/ q.todo = <<"authn", "authz", Target(q.path)>>
          \/ q.todo = <<"authz", Target(q.path)>>
          \/ q.todo = <<Target(q.path)>>
      BY <1>3 DEF OnItsWay
    <3>3. \A a, b, c, d : /\ Len(<<a, b, c, d>>) = 4 /\ Len(<<b, c, d>>) = 3
                          /\ Len(<<c, d>>) = 2 /\ Len(<<d>>) = 1
      OBVIOUS
    <3> HIDE DEF q
    <3>4. \/ Len(q.todo) = 4 \/ Len(q.todo) = 3 \/ Len(q.todo) = 2 \/ Len(q.todo) = 1
      BY <3>2, <3>3, Zenon
    <3>5. Len(q.todo) # 0
      BY <3>4
    <3>6. QED
      BY <3>1, <3>5
  <2>2. Passed(identity) \in Request
    <3>1. Tail(q.todo) \in Seq(Layers)
      BY <2>1
    <3> DEFINE todo == Tail(q.todo)
    <3>2. Passed(identity) = [q EXCEPT !.todo = todo, !.identity = identity]
      OBVIOUS
    <3> HIDE DEF todo, q
    <3>3. [q EXCEPT !.todo = todo, !.identity = identity] \in Request
      BY <1>0, <3>1 DEF Request, todo
    <3>4. QED
      BY <3>2, <3>3
  <2>3. RequestOK(Passed(identity))
    BY <1>0, <1>3, <1>4 DEF Request, RequestOK, RightAnswer
  <2>4. MovesOn(r, Passed(identity))
    BY <1>0, <1>1, <1>4 DEF Pass, MovesOn, AdmissionInv, ServerTypeOK
  <2>5. QED
    BY <2>2, <2>3, <2>4, OneRequestMoves
<1>5. ASSUME NEW answer \in Answers, Answer(r, answer), RightAnswer(Answered(answer))
      PROVE  AdmissionInv'
  <2>1. Answered(answer) \in Request
    <3>1. <<>> \in Seq(Layers)
      OBVIOUS
    <3> HIDE DEF q
    <3>2. QED
      BY <1>0, <3>1 DEF Request
  <2>2. RequestOK(Answered(answer))
    BY <1>0, <1>5 DEF Request, RequestOK
  <2>3. MovesOn(r, Answered(answer))
    BY <1>0, <1>1, <1>5 DEF Answer, MovesOn, AdmissionInv, ServerTypeOK
  <2>4. QED
    BY <2>1, <2>2, <2>3, OneRequestMoves
<1>6. CASE UserLayer(r)
  <2>1. q.todo = <<"user", "authn", "authz", Target(q.path)>>
    BY <1>2, <1>3, <1>6 DEF UserLayer, In, OnItsWay
  <2>2. CASE Pass(r, q.identity)
    <3>1. OnItsWay(Passed(q.identity))
      BY <1>0, <1>2, <2>1 DEF OnItsWay, Request
    <3>2. QED
      BY <1>0, <1>4, <2>2, <3>1 DEF Request
  <2>3. CASE Answer(r, "user")
    BY <1>0, <1>5, <2>3 DEF RightAnswer, Request
  <2>4. QED
    BY <1>6, <2>2, <2>3 DEF UserLayer
<1>7. CASE Authenticate(r)
  <2>1. q.todo = <<"authn", "authz", Target(q.path)>>
    BY <1>2, <1>3, <1>7 DEF Authenticate, In, OnItsWay
  <2>2. CASE Identities(r) = {} /\ Answer(r, "401")
    <3>1. config.authn = "Jwt" /\ q.token \notin valid
      BY <1>0, <2>2 DEF Identities
    <3>2. RightAnswer(Answered("401"))
      BY <1>0, <3>1 DEF RightAnswer, Request
    <3>3. QED
      BY <1>5, <2>2, <3>2
  <2>3. ASSUME NEW identity \in Identities(r), Pass(r, identity)
        PROVE  AdmissionInv'
    <3>1. /\ identity \in Tokens \cup {"()"}
          /\ Cleared(Passed(identity))
      BY <1>0 DEF Identities, Cleared, Request, RequestOK
    <3>2. OnItsWay(Passed(identity))
      BY <1>0, <1>2, <2>1, <3>1 DEF OnItsWay, Request
    <3>3. QED
      BY <1>4, <2>3, <3>1, <3>2
  <2>4. QED
    BY <1>7, <2>2, <2>3 DEF Authenticate
<1>8. CASE Authorize(r)
  <2>1. q.todo = <<"authz", Target(q.path)>> /\ Cleared(q)
    BY <1>2, <1>3, <1>8 DEF Authorize, In, OnItsWay
  <2>2. q.identity # None
    BY <1>0, <2>1 DEF Cleared, Request
  <2>3. CASE Allowed(r) /\ Pass(r, q.identity)
    <3>1. Permitted(Passed(q.identity)) /\ Cleared(Passed(q.identity))
      BY <1>0, <2>1, <2>3 DEF Allowed, Permitted, Cleared, Request
    <3>2. OnItsWay(Passed(q.identity))
      BY <1>0, <1>2, <2>1, <3>1 DEF OnItsWay, Request
    <3>3. QED
      BY <1>0, <1>4, <2>3, <3>2 DEF Request
  <2>4. CASE config.policy /\ Answer(r, "403")
    <3>1. RightAnswer(Answered("403"))
      BY <1>0, <2>1, <2>4 DEF RightAnswer, Cleared, Request
    <3>2. QED
      BY <1>5, <2>4, <3>1
  <2>5. QED
    BY <1>8, <2>2, <2>3, <2>4 DEF Authorize
<1>9. CASE Handle(r)
  <2>1. Cleared(q) /\ Permitted(q)
    BY <1>2, <1>3, <1>9 DEF Handle, In, OnItsWay
  <2>2. PICK answer \in {"routes", "service", "404"} : Answer(r, answer)
    BY <1>9 DEF Handle
  <2>3. RightAnswer(Answered(answer))
    BY <1>0, <2>1 DEF RightAnswer, Cleared, Permitted, Request
  <2>4. QED
    BY <1>5, <2>2, <2>3
<1>10. QED
  BY <1>6, <1>7, <1>8, <1>9 DEF LayerStep

\* Steps of the program, its process, discovery and time.
OtherStep ==
    \/ LifeStep \/ DiscoveryStarts \/ DiscoveryEnds \/ ProcessStep
    \/ \E token \in Tokens : Expire(token)
    \/ UNCHANGED serverVars

\* They forget the requests or leave them alone.
LEMMA OtherStepsKeepRequests ==
    ASSUME OtherStep
    PROVE  /\ config' = config
           /\ valid' \in SUBSET valid
           /\ \/ req' = req
              \/ req' = [r \in Requests |-> NoRequest] /\ (Crash \/ Restart)
<1>1. CASE LifeStep \/ DiscoveryStarts \/ DiscoveryEnds
  BY <1>1 DEF LifeStep, ReadArguments, Bind, Assemble, SpawnDiscovery, OpenFails, Open, Drain,
              Return, Exit, DiscoveryStarts, DiscoveryEnds
<1>2. CASE ProcessStep
  BY <1>2 DEF ProcessStep, Signal, Crash, Restart, CleanUp
<1>3. CASE UNCHANGED serverVars \/ \E token \in Tokens : Expire(token)
  BY <1>3 DEF Expire, serverVars
<1>4. QED
  BY <1>1, <1>2, <1>3 DEF OtherStep

Stages == {"starting", "binding", "assembling", "ready", "opening", "serving", "draining",
           "returned", "failed", "exited"}

\* What the life of the server may be.
LifeTypeOK ==
    /\ stage \in Stages
    /\ discovery \in {"none", "starting", "running", "ended"}
    /\ armed \in BOOLEAN /\ shutdown \in BOOLEAN
    /\ notified \in BOOLEAN /\ socketFile \in BOOLEAN /\ served \in BOOLEAN
    /\ stage \in {"serving", "draining", "returned"} => armed
    /\ shutdown => armed

LEMMA TypesSplit ==
    ServerTypeOK <=> /\ config \in Config
                     /\ valid \subseteq Issued
                     /\ req \in [Requests -> Request]
                     /\ LifeTypeOK
  BY DEF ServerTypeOK, LifeTypeOK, Stages

\* A step that leaves the life of the server alone.
LEMMA LifeUnchanged ==
    ASSUME LifeTypeOK, UNCHANGED lifeVars
    PROVE  LifeTypeOK'
<1>1. /\ stage' = stage /\ armed' = armed /\ shutdown' = shutdown /\ discovery' = discovery
      /\ notified' = notified /\ socketFile' = socketFile /\ served' = served
  BY DEF lifeVars, fileVars
<1>2. QED
  BY <1>1, Zenon DEF LifeTypeOK

\* The program, signals, discovery and time keep the types.
LEMMA LifeTypes ==
    ASSUME ServerTypeOK, OtherStep
    PROVE  ServerTypeOK'
<1>0. LifeTypeOK /\ config \in Config /\ valid \subseteq Issued /\ req \in [Requests -> Request]
  BY TypesSplit
<1>1. LifeTypeOK'
  <2> USE <1>0 DEF LifeTypeOK, Stages, fileVars
  <2>1. CASE ReadArguments
    BY <2>1 DEF ReadArguments
  <2>2. CASE Bind
    BY <2>2 DEF Bind
  <2>3. CASE Assemble
    BY <2>3 DEF Assemble
  <2>4. CASE SpawnDiscovery
    BY <2>4 DEF SpawnDiscovery
  <2>5. CASE OpenFails \/ Return \/ Drain
    BY <2>5 DEF OpenFails, Return, Drain
  <2>6. CASE Open
    BY <2>6 DEF Open
  <2>7. CASE Exit
    BY <2>7 DEF Exit
  <2>8. CASE DiscoveryStarts
    <3>1. CASE discovery' = "ended" /\ UNCHANGED armed
      <4>1. /\ stage' = stage /\ armed' = armed /\ shutdown' = shutdown
            /\ notified' = notified /\ socketFile' = socketFile /\ served' = served
        BY <2>8, <3>1 DEF DiscoveryStarts
      <4>2. discovery' \in {"none", "starting", "running", "ended"}
        BY <3>1
      <4>3. QED
        BY <4>1, <4>2, Zenon
    <3>2. CASE discovery' = "running" /\ armed' = TRUE
      BY <2>8, <3>2 DEF DiscoveryStarts
    <3>3. QED
      BY <2>8, <3>1, <3>2 DEF DiscoveryStarts
  <2>9. CASE DiscoveryEnds
    BY <2>9 DEF DiscoveryEnds
  <2>10. CASE Signal
    BY <2>10 DEF Signal
  <2>11. CASE Crash
    BY <2>11 DEF Crash
  <2>12. CASE Restart
    BY <2>12 DEF Restart
  <2>13. CASE CleanUp
    BY <2>13 DEF CleanUp
  <2>14. CASE UNCHANGED serverVars \/ \E token \in Tokens : Expire(token)
    <3>1. UNCHANGED lifeVars
      BY <2>14 DEF Expire, serverVars
    <3>2. QED
      BY <3>1, LifeUnchanged, Zenon
  <2>15. QED
    BY <2>1, <2>2, <2>3, <2>4, <2>5, <2>6, <2>7, <2>8, <2>9, <2>10, <2>11, <2>12, <2>13, <2>14
       DEF OtherStep, LifeStep, ProcessStep
<1>2. config' \in Config /\ valid' \subseteq Issued
  BY <1>0, OtherStepsKeepRequests
<1>3. req' \in [Requests -> Request]
  <2>1. NoRequest \in Request
    BY TokensAssumption DEF NoRequest, Request
  <2>2. QED
    BY <1>0, <2>1, OtherStepsKeepRequests
<1>4. QED
  BY <1>1, <1>2, <1>3 DEF ServerTypeOK, LifeTypeOK, Stages

\* A request that is not there is as it should be.
LEMMA NoRequestOK == valid \subseteq Issued => RequestOK(NoRequest)
  BY TokensAssumption, NoneAssumption DEF NoRequest, RequestOK, RightAnswer, Answers

\* What the program, its process, discovery and time do keeps the requests right.
LEMMA LifeSteps ==
    ASSUME AdmissionInv, OtherStep
    PROVE  AdmissionInv'
<1>1. ServerTypeOK'
  BY LifeTypes DEF AdmissionInv
<1>2. config' = config /\ valid' \in SUBSET valid
  BY OtherStepsKeepRequests
<1>3. ASSUME NEW r \in Requests
      PROVE  RequestOK(req[r])'
  <2>1. RequestOK(req[r]) /\ RequestOK(NoRequest)
    BY NoRequestOK DEF AdmissionInv, ServerTypeOK
  <2>2. req'[r] = req[r] \/ req'[r] = NoRequest
    BY OtherStepsKeepRequests
  <2>3. ASSUME NEW q, RequestOK(q), req'[r] = q
        PROVE  RequestOK(req[r])'
    BY <1>2, <2>3 DEF RequestOK, RightAnswer, OnItsWay, Cleared, Permitted
  <2>4. QED
    BY <2>1, <2>2, <2>3
<1>4. QED
  BY <1>1, <1>3 DEF AdmissionInv

\* Every step is one of these.
LEMMA AdmissionStep == AdmissionInv /\ [ServerNext]_serverVars => AdmissionInv'
  BY ClientSteps, LayerSteps, LifeSteps DEF ServerNext, OtherStep

\* No request is there yet.
LEMMA InitAdmission == ServerInit => AdmissionInv
<1> SUFFICES ASSUME ServerInit PROVE AdmissionInv
  OBVIOUS
<1>1. NoRequest \in Request
  BY TokensAssumption DEF NoRequest, Request
<1>2. ServerTypeOK
  BY <1>1 DEF ServerInit, ServerTypeOK
<1>3. ASSUME NEW r \in Requests
      PROVE  RequestOK(req[r])
  BY TokensAssumption, NoneAssumption
     DEF ServerInit, NoRequest, RequestOK, RightAnswer, Answers
<1>4. QED
  BY <1>2, <1>3 DEF AdmissionInv

\* Who gets past the layers has been let in by both of them.
THEOREM AdmissionCorrect == ServerSpec => [](ServerTypeOK /\ AdmissionIsEnforced)
<1>1. ServerInit => AdmissionInv
  BY InitAdmission
<1>2. AdmissionInv => ServerTypeOK /\ AdmissionIsEnforced
  BY DEF AdmissionInv, AdmissionIsEnforced, RequestOK, RightAnswer
<1>3. QED
  BY <1>1, <1>2, AdmissionStep, PTL DEF ServerSpec

\* Requests are let in while the server serves, and it leaves draining only when
\* none is left; a signal kills only a program that does not serve yet.
LEMMA NobodyIsCutOffStep ==
    ServerTypeOK /\ NobodyIsCutOff /\ [ServerNext]_serverVars => NobodyIsCutOff'
<1> SUFFICES ASSUME ServerTypeOK, NobodyIsCutOff, [ServerNext]_serverVars,
                    NEW s \in Requests, InProgress(s)'
             PROVE  stage' \in {"serving", "draining"}
  BY DEF NobodyIsCutOff
<1> USE DEF ServerTypeOK, NobodyIsCutOff, InProgress
<1>1. CASE req' = req /\ (LifeStep \/ DiscoveryStarts \/ DiscoveryEnds)
  BY <1>1 DEF LifeStep, ReadArguments, Bind, Assemble, SpawnDiscovery, OpenFails, Open, Drain,
              Return, Exit, DiscoveryStarts, DiscoveryEnds
<1>2. CASE req' = req /\ (Signal \/ CleanUp)
  BY <1>2 DEF Signal, CleanUp
<1>3. ASSUME NEW r \in Requests, Connect(r)
      PROVE  stage' \in {"serving", "draining"}
  BY <1>3 DEF Connect, lifeVars
<1>4. ASSUME NEW r \in Requests, CloseIdle(r) \/ Disconnect(r) \/ LayerStep(r)
      PROVE  stage' \in {"serving", "draining"}
  <2>1. req[r].at \in {"connected", "inside"} /\ UNCHANGED lifeVars
    BY <1>4 DEF CloseIdle, Disconnect, LayerStep, UserLayer, Authenticate, Authorize, Handle, In
  <2>2. QED
    BY <2>1 DEF lifeVars
<1>5. ASSUME NEW r \in Requests, NEW token \in Tokens, NEW path \in Paths,
             Receive(r, token, path)
      PROVE  stage' \in {"serving", "draining"}
  <2>1. req[r].at = "connected" /\ UNCHANGED lifeVars
    BY <1>5 DEF Receive
  <2>2. QED
    BY <2>1 DEF lifeVars
<1>6. CASE UNCHANGED serverVars \/ \E token \in Tokens : Expire(token)
  <2>1. req' = req /\ stage' = stage
    BY <1>6 DEF Expire, serverVars, lifeVars
  <2>2. QED
    BY <2>1
<1>7. CASE req' = [r \in Requests |-> NoRequest]
  BY <1>7 DEF NoRequest
<1>8. OtherStep => stage' \in {"serving", "draining"}
  <2> SUFFICES ASSUME OtherStep PROVE stage' \in {"serving", "draining"}
    OBVIOUS
  <2>1. req' = req \/ req' = [r \in Requests |-> NoRequest]
    BY OtherStepsKeepRequests
  <2>2. CASE req' = req /\ (Crash \/ Restart)
    <3>1. req' = [r \in Requests |-> NoRequest]
      BY <2>2 DEF Crash, Restart
    <3>2. QED
      BY <1>7, <3>1
  <2>3. QED
    BY <1>1, <1>2, <1>6, <1>7, <2>1, <2>2 DEF OtherStep, ProcessStep
<1>9. QED
  BY <1>3, <1>4, <1>5, <1>8 DEF ServerNext, OtherStep

\* No request that was let in is cut off by the end of the server.
THEOREM NobodyIsCutOffCorrect == ServerSpec => []NobodyIsCutOff
<1>1. ServerInit => NobodyIsCutOff
  BY DEF ServerInit, NobodyIsCutOff, InProgress, NoRequest
<1>2. QED
  BY <1>1, AdmissionCorrect, NobodyIsCutOffStep, PTL DEF ServerSpec

(***************************************************************************)
(* Why a program fails.                                                    *)
(***************************************************************************)

Assembled == TlsArgs /\ CreateCorsLayer /\ config.fault # "served directory"

\* Who is past a stage had nothing of what that stage stumbles over, and who served
\* was past all of them once.
FailureInv ==
    /\ stage \in {"binding", "assembling", "ready", "opening", "serving", "draining", "returned"}
          => ArgumentsRead
    /\ stage \in {"ready", "opening", "serving", "draining", "returned"}
          => Assembled
    /\ stage \in {"starting", "binding", "assembling"} => ~notified
    /\ served => ArgumentsRead /\ Assembled /\ Opens
    /\ FailuresAreExplained

LEMMA FailureStep ==
    ServerTypeOK /\ FailureInv /\ [ServerNext]_serverVars => FailureInv'
<1> SUFFICES ASSUME ServerTypeOK, FailureInv, [ServerNext]_serverVars PROVE FailureInv'
  OBVIOUS
<1> USE DEF FailureInv, FailuresAreExplained, fileVars, ServerTypeOK
<1>0. config' = config => /\ ArgumentsRead' = ArgumentsRead
                          /\ Assembled' = Assembled
                          /\ Opens' = Opens
  BY DEF ArgumentsRead, Assembled, TlsArgs, CreateCorsLayer, Opens, BuildRouter, CorsUsable,
         TlsBuild
<1>1. CASE ReadArguments
  BY <1>0, <1>1 DEF ReadArguments
<1>2. CASE Bind
  BY <1>0, <1>2 DEF Bind
<1>3. CASE Assemble
  BY <1>0, <1>3 DEF Assemble, Assembled
<1>4. CASE SpawnDiscovery
  BY <1>0, <1>4 DEF SpawnDiscovery
<1>5. CASE OpenFails
  BY <1>0, <1>5 DEF OpenFails
<1>6. CASE Open
  BY <1>0, <1>6 DEF Open
<1>7. CASE Drain \/ Return
  BY <1>0, <1>7 DEF Drain, Return
<1>8. CASE Exit \/ Crash
  BY <1>0, <1>8 DEF Exit, Crash
<1>9. CASE Restart
  BY <1>0, <1>9 DEF Restart
<1>10. CASE CleanUp
  BY <1>0, <1>10 DEF CleanUp
<1>11. CASE Signal
  BY <1>0, <1>11 DEF Signal
<1>12. CASE UNCHANGED <<config, stage, fileVars>>
  BY <1>0, <1>12
<1>13. DiscoveryStarts \/ DiscoveryEnds \/ (\E token \in Tokens : Expire(token))
          \/ UNCHANGED serverVars => UNCHANGED <<config, stage, fileVars>>
  BY DEF DiscoveryStarts, DiscoveryEnds, Expire, serverVars, lifeVars
<1>14. ASSUME NEW r \in Requests,
              \/ Connect(r) \/ CloseIdle(r) \/ Disconnect(r) \/ LayerStep(r)
              \/ \E token \in Tokens, path \in Paths : Receive(r, token, path)
       PROVE  UNCHANGED <<config, stage, fileVars>>
  BY <1>14 DEF Connect, CloseIdle, Disconnect, Receive, LayerStep, UserLayer, Authenticate,
               Authorize, Handle, In, lifeVars
<1>15. QED
  BY <1>1, <1>2, <1>3, <1>4, <1>5, <1>6, <1>7, <1>8, <1>9, <1>10, <1>11, <1>12, <1>13, <1>14
     DEF ServerNext, LifeStep, ProcessStep

\* A program that served once fails to start again only over its own socket file,
\* and who has said that he is ready fails only over what serve() looks at.
THEOREM FailuresAreExplainedCorrect == ServerSpec => []FailuresAreExplained
<1>1. ServerInit => FailureInv
  BY DEF ServerInit, FailureInv, FailuresAreExplained
<1>2. FailureInv => FailuresAreExplained
  BY DEF FailureInv
<1>3. QED
  BY <1>1, <1>2, AdmissionCorrect, FailureStep, PTL DEF ServerSpec

(***************************************************************************)
(* What a draining server waits for.  That it ends is a liveness property, *)
(* which TLC checks; that it always has a step to take, and that every     *)
(* step brings it closer, are the two facts it rests on.                   *)
(***************************************************************************)

\* What is still ahead of a request is never empty, and each layer is one of the
\* layers.
LEMMA SomethingIsAhead ==
    ASSUME NEW q, OnItsWay(q)
    PROVE  /\ q.todo \in Seq(Layers) /\ Len(q.todo) \in 1 .. 4
           /\ Head(q.todo) \in Layers
<1>1. Target(q.path) \in Layers
  BY DEF Target, Layers
<1>2. {"user", "authn", "authz"} \subseteq Layers
  BY DEF Layers
<1>3. ASSUME NEW a \in Layers, NEW b \in Layers, NEW c \in Layers, NEW d \in Layers
      PROVE  /\ <<a, b, c, d>> \in Seq(Layers) /\ Len(<<a, b, c, d>>) = 4
             /\ <<b, c, d>> \in Seq(Layers) /\ Len(<<b, c, d>>) = 3
             /\ <<c, d>> \in Seq(Layers) /\ Len(<<c, d>>) = 2
             /\ <<d>> \in Seq(Layers) /\ Len(<<d>>) = 1
  OBVIOUS
<1>4. q.todo \in Seq(Layers) /\ Len(q.todo) \in {1, 2, 3, 4}
  <2> DEFINE target == Target(q.path)
  <2>1. target \in Layers /\ "user" \in Layers /\ "authn" \in Layers /\ "authz" \in Layers
    BY <1>1, <1>2
  <2>2. \/ q.todo = <<"user", "authn", "authz", target>>
        \/ q.todo = <<"authn", "authz", target>>
        \/ q.todo = <<"authz", target>>
        \/ q.todo = <<target>>
    BY DEF OnItsWay
  <2> HIDE DEF target
  <2>3. CASE q.todo = <<"user", "authn", "authz", target>>
    BY <1>3, <2>1, <2>3
  <2>4. CASE q.todo = <<"authn", "authz", target>>
    BY <1>3, <2>1, <2>4
  <2>5. CASE q.todo = <<"authz", target>>
    BY <1>3, <2>1, <2>5
  <2>6. CASE q.todo = <<target>>
    BY <1>3, <2>1, <2>6
  <2>7. QED
    BY <2>2, <2>3, <2>4, <2>5, <2>6
<1>5. QED
  BY <1>4

\* A request that passes a layer has one layer less ahead of it.
LEMMA PassingGoesOn ==
    ASSUME AdmissionInv, NEW r \in Requests, req[r].at = "inside", NEW identity,
           Pass(r, identity)
    PROVE  Distance(r)' < Distance(r)
<1>1. /\ req \in [Requests -> Request]
      /\ req[r].todo \in Seq(Layers) /\ Len(req[r].todo) \in 1 .. 4
  BY SomethingIsAhead DEF AdmissionInv, ServerTypeOK, RequestOK
<1>2. Len(Tail(req[r].todo)) = Len(req[r].todo) - 1
  <2> DEFINE todo == req[r].todo
  <2>1. todo \in Seq(Layers) /\ Len(todo) \in 1 .. 4
    BY <1>1
  <2> HIDE DEF todo
  <2>2. Len(Tail(todo)) = Len(todo) - 1
    BY <2>1
  <2>3. QED
    BY <2>2 DEF todo
<1>3. req'[r].at = "inside" /\ req'[r].todo = Tail(req[r].todo)
  BY <1>1 DEF Pass, Request
<1>4. QED
  BY <1>1, <1>2, <1>3 DEF Distance

\* An answer ends it.
LEMMA AnswersEndIt ==
    ASSUME AdmissionInv, NEW r \in Requests, req[r].at = "inside", NEW answer,
           Answer(r, answer)
    PROVE  Distance(r)' < Distance(r)
<1>1. /\ req \in [Requests -> Request]
      /\ req[r].todo \in Seq(Layers) /\ Len(req[r].todo) \in 1 .. 4
  BY SomethingIsAhead DEF AdmissionInv, ServerTypeOK, RequestOK
<1>2. req'[r].at = "closed"
  BY <1>1 DEF Answer, Request
<1> DEFINE length == Len(req[r].todo)
<1>3. Distance(r)' = 0 /\ Distance(r) = length
  BY <1>2 DEF Distance
<1>4. length \in 1 .. 4
  BY <1>1
<1> HIDE DEF length
<1>5. 0 < length
  BY <1>4
<1>6. QED
  BY <1>3, <1>5

\* Whatever happens to a request that has come in brings it closer to its end.
LEMMA RequestsGoOn ==
    ASSUME AdmissionInv, NEW r \in Requests,
           \/ CloseIdle(r) \/ Disconnect(r) \/ LayerStep(r)
           \/ \E token \in Tokens, path \in Paths : Receive(r, token, path)
    PROVE  Distance(r)' < Distance(r)
<1>1. /\ req \in [Requests -> Request]
      /\ req[r].at = "inside" => Len(req[r].todo) \in 1 .. 4
  BY SomethingIsAhead DEF AdmissionInv, ServerTypeOK, RequestOK
<1>2. CASE CloseIdle(r)
  <2>1. req[r].at = "connected" /\ req'[r].at = "closed"
    BY <1>1, <1>2 DEF CloseIdle, Request
  <2>2. QED
    BY <2>1 DEF Distance
<1>3. CASE Disconnect(r)
  <2>1. req[r].at \in {"connected", "inside"} /\ req'[r].at = "closed"
    BY <1>1, <1>3 DEF Disconnect, InProgress, NoRequest
  <2> DEFINE length == Len(req[r].todo)
  <2>2. /\ Distance(r)' = 0
        /\ Distance(r) = IF req[r].at = "connected" THEN 5 ELSE length
    BY <2>1 DEF Distance
  <2>3. req[r].at = "inside" => length \in 1 .. 4
    BY <1>1
  <2> HIDE DEF length
  <2>4. CASE req[r].at = "inside"
    <3>1. 0 < length
      BY <2>3, <2>4
    <3>2. QED
      BY <2>2, <2>4, <3>1
  <2>5. CASE req[r].at = "connected"
    BY <2>2, <2>5
  <2>6. QED
    BY <2>1, <2>4, <2>5
<1>4. ASSUME NEW token \in Tokens, NEW path \in Paths, Receive(r, token, path)
      PROVE  Distance(r)' < Distance(r)
  <2>1. /\ req[r].at = "connected" /\ req'[r].at = "inside"
        /\ req'[r].todo = <<"user", "authn", "authz", Target(path)>>
    BY <1>1, <1>4 DEF Receive, Request, Pipeline
  <2>2. Len(req'[r].todo) = 4
    BY <2>1
  <2>3. QED
    BY <2>1, <2>2 DEF Distance
<1>5. CASE LayerStep(r)
  <2>1. req[r].at = "inside"
    BY <1>5 DEF LayerStep, UserLayer, Authenticate, Authorize, Handle, In
  <2>2. (\E identity : Pass(r, identity)) \/ (\E answer : Answer(r, answer))
    BY <1>5 DEF LayerStep, UserLayer, Authenticate, Authorize, Handle
  <2>3. QED
    BY <2>1, <2>2, PassingGoesOn, AnswersEndIt
<1>6. QED
  BY <1>2, <1>3, <1>4, <1>5

\* And leaves the others alone.
LEMMA OthersStay ==
    ASSUME AdmissionInv, NEW r \in Requests,
           \/ CloseIdle(r) \/ Disconnect(r) \/ LayerStep(r)
           \/ \E token \in Tokens, path \in Paths : Receive(r, token, path)
    PROVE  \A s \in Requests \ {r} : req'[s] = req[s]
<1>1. PICK q : req' = [req EXCEPT ![r] = q]
  <2>1. CASE LayerStep(r)
    BY <2>1 DEF LayerStep, UserLayer, Authenticate, Authorize, Handle, Pass, Answer
  <2>2. CASE CloseIdle(r) \/ Disconnect(r)
    BY <2>2 DEF CloseIdle, Disconnect
  <2>3. QED
    BY <2>1, <2>2 DEF Receive
<1>2. QED
  BY <1>1 DEF AdmissionInv, ServerTypeOK

LEMMA DrainStep ==
    AdmissionInv /\ [ServerNext]_serverVars
      => (stage = "draining" /\ stage' = "draining" =>
            \A r \in Requests : req'[r] = req[r] \/ Distance(r)' < Distance(r))
<1> SUFFICES ASSUME AdmissionInv, [ServerNext]_serverVars, stage = "draining",
                    stage' = "draining", NEW s \in Requests
             PROVE  req'[s] = req[s] \/ Distance(s)' < Distance(s)
  OBVIOUS
<1>1. CASE OtherStep
  <2>1. ~Crash /\ ~Restart
    BY DEF Crash, Restart
  <2>2. QED
    BY <1>1, <2>1, OtherStepsKeepRequests
<1>2. ASSUME NEW r \in Requests,
             \/ CloseIdle(r) \/ Disconnect(r) \/ LayerStep(r)
             \/ \E token \in Tokens, path \in Paths : Receive(r, token, path)
      PROVE  req'[s] = req[s] \/ Distance(s)' < Distance(s)
  BY <1>2, RequestsGoOn, OthersStay
<1>3. \A r \in Requests : ~Connect(r)
  BY DEF Connect
<1>4. QED
  BY <1>1, <1>2, <1>3 DEF ServerNext, OtherStep

\* A draining server is never stuck with a request, and every step that concerns a
\* request leads towards the end.
THEOREM DrainCorrect == ServerSpec => []DrainGoesOn /\ DrainComesToAnEnd
<1>1. ServerInit => AdmissionInv
  BY InitAdmission
<1>2. AdmissionInv => DrainGoesOn
  BY SomethingIsAhead DEF AdmissionInv, DrainGoesOn, RequestOK, Distance
<1>3. AdmissionInv /\ [ServerNext]_serverVars
        => [stage = "draining" /\ stage' = "draining" =>
              \A r \in Requests : req'[r] = req[r] \/ Distance(r)' < Distance(r)]_serverVars
  BY DrainStep
<1>4. QED
  BY <1>1, <1>2, <1>3, AdmissionStep, PTL DEF ServerSpec, DrainComesToAnEnd

(***************************************************************************)
(* The handshake slots of the TLS listener.                                *)
(***************************************************************************)

\* The channel holds each completed connection once, and nothing else; what is in
\* flight was let in one by one.
ChannelHoldsQueued ==
    /\ \A i \in 1 .. Len(done) : conn[done[i]] = "queued"
    /\ \A i, j \in 1 .. Len(done) : done[i] = done[j] => i = j

SlotsInv ==
    /\ TlsTypeOK
    /\ ChannelHoldsQueued
    /\ IsFiniteSet(InFlight)
    /\ SlotsConserved

\* A connection that changes outside of the tasks takes no slot and frees none.
LEMMA OthersKeepSlots ==
    ASSUME TlsTypeOK, IsFiniteSet(InFlight), SlotsConserved,
           InFlight' = InFlight, permits' = permits
    PROVE  IsFiniteSet(InFlight)' /\ SlotsConserved'
  BY DEF SlotsConserved

\* The end of a task gives back the one slot that the task had.
LEMMA EndTaskFreesSlot ==
    ASSUME SlotsInv, NEW c \in Conns, conn[c] \in {"handshake", "sending"},
           NEW state \in {"failed", "queued", "lost"}, EndTask(c, state)
    PROVE  /\ permits' \in 0 .. MaxPending
           /\ IsFiniteSet(InFlight)'
           /\ SlotsConserved'
<1>1. InFlight' = InFlight \ {c}
  BY DEF EndTask, InFlight, SlotsInv, TlsTypeOK
<1>2. c \in InFlight
  BY DEF InFlight
<1>3. /\ IsFiniteSet(InFlight \ {c})
      /\ Cardinality(InFlight \ {c}) = Cardinality(InFlight) - 1
  BY <1>2, FS_RemoveElement DEF SlotsInv
<1>4. Cardinality(InFlight) \in Nat /\ Cardinality(InFlight \ {c}) \in Nat
  BY <1>3, FS_CardinalityType DEF SlotsInv
<1>5. permits' = permits + 1 /\ permits \in Nat
  BY MaxPendingAssumption DEF EndTask, SlotsInv, TlsTypeOK
<1>6. permits + Cardinality(InFlight) = MaxPending
  BY DEF SlotsInv, SlotsConserved
<1>7. permits' + Cardinality(InFlight \ {c}) = MaxPending
  BY <1>3, <1>4, <1>5, <1>6, MaxPendingAssumption
<1>8. permits' \in 0 .. MaxPending
  BY <1>4, <1>5, <1>7, MaxPendingAssumption
<1>9. QED
  BY <1>1, <1>3, <1>7, <1>8 DEF SlotsConserved

\* A new handshake takes one slot.
LEMMA SpawnTakesSlot ==
    ASSUME SlotsInv, NEW c \in Conns, SpawnHandshake(c)
    PROVE  SlotsInv'
<1>1. InFlight' = InFlight \cup {c} /\ c \notin InFlight
  BY DEF SpawnHandshake, InFlight, SlotsInv, TlsTypeOK
<1>2. /\ IsFiniteSet(InFlight \cup {c})
      /\ Cardinality(InFlight \cup {c}) = Cardinality(InFlight) + 1
  BY <1>1, FS_AddElement DEF SlotsInv
<1>3. Cardinality(InFlight) \in Nat
  BY FS_CardinalityType DEF SlotsInv
<1>4. permits' = permits - 1 /\ permits \in 1 .. MaxPending
  BY MaxPendingAssumption DEF SpawnHandshake, SlotsInv, TlsTypeOK
<1>5. permits + Cardinality(InFlight) = MaxPending
  BY DEF SlotsInv, SlotsConserved
<1>6. permits' + Cardinality(InFlight \cup {c}) = MaxPending
  BY <1>2, <1>3, <1>4, <1>5, MaxPendingAssumption
<1>7. permits' \in 0 .. MaxPending
  BY <1>4, MaxPendingAssumption
<1>8. TlsTypeOK'
  BY <1>7 DEF SpawnHandshake, SlotsInv, TlsTypeOK, ConnState
<1>9. ChannelHoldsQueued'
  BY DEF SpawnHandshake, SlotsInv, TlsTypeOK, ChannelHoldsQueued
<1>10. QED
  BY <1>1, <1>2, <1>6, <1>8, <1>9 DEF SlotsInv, SlotsConserved

\* Connections come in, are dropped and complete their handshakes.
LEMMA ConnectionSteps ==
    ASSUME SlotsInv, NEW c \in Conns,
           ClientConnects(c) \/ DropConn(c) \/ CompleteHandshake(c)
    PROVE  SlotsInv'
<1> USE DEF ClientConnects, DropConn, CompleteHandshake
<1>1. InFlight' = InFlight /\ permits' = permits
  BY DEF InFlight, SlotsInv, TlsTypeOK
<1>2. TlsTypeOK'
  BY DEF SlotsInv, TlsTypeOK, ConnState
<1>3. ChannelHoldsQueued'
  BY DEF SlotsInv, TlsTypeOK, ChannelHoldsQueued
<1>4. QED
  BY <1>1, <1>2, <1>3, OthersKeepSlots DEF SlotsInv

\* The head of the channel goes to axum.
LEMMA ReturnStep ==
    ASSUME SlotsInv, ReturnConn
    PROVE  SlotsInv'
<1>1. /\ done \in Seq(Conns) /\ Len(done) \in Nat /\ Len(done) > 0
      /\ Head(done) = done[1] /\ Head(done) \in Conns
      /\ conn[Head(done)] = "queued"
  BY DEF ReturnConn, SlotsInv, TlsTypeOK, ChannelHoldsQueued
<1>2. /\ done' \in Seq(Conns) /\ Len(done') = Len(done) - 1
      /\ \A i \in 1 .. Len(done') : done'[i] = done[i + 1]
  BY <1>1 DEF ReturnConn
<1>3. conn' = [conn EXCEPT ![done[1]] = "served"]
  BY <1>1 DEF ReturnConn
<1>4. InFlight' = InFlight /\ permits' = permits
  BY <1>1, <1>3 DEF InFlight, ReturnConn, SlotsInv, TlsTypeOK
<1>5. TlsTypeOK'
  BY <1>1, <1>2, <1>3, MaxPendingAssumption DEF ReturnConn, SlotsInv, TlsTypeOK, ConnState
<1>6. ChannelHoldsQueued'
  <2>1. ASSUME NEW i \in 1 .. Len(done')
        PROVE  conn'[done'[i]] = "queued"
    <3>1. i + 1 \in 1 .. Len(done) /\ i + 1 # 1 /\ 1 \in 1 .. Len(done)
      BY <1>1, <1>2
    <3>2. done[i + 1] # done[1] /\ conn[done[i + 1]] = "queued" /\ done[i + 1] \in Conns
      BY <1>1, <3>1 DEF SlotsInv, ChannelHoldsQueued
    <3>3. QED
      BY <1>2, <1>3, <3>2 DEF SlotsInv, TlsTypeOK
  <2>2. ASSUME NEW i \in 1 .. Len(done'), NEW j \in 1 .. Len(done'), done'[i] = done'[j]
        PROVE  i = j
    <3>1. i + 1 \in 1 .. Len(done) /\ j + 1 \in 1 .. Len(done)
      BY <1>1, <1>2
    <3>2. i + 1 = j + 1
      BY <1>2, <2>2, <3>1 DEF SlotsInv, ChannelHoldsQueued
    <3>3. QED
      BY <1>1, <1>2, <3>2
  <2>3. QED
    BY <2>1, <2>2 DEF ChannelHoldsQueued
<1>7. QED
  BY <1>4, <1>5, <1>6, OthersKeepSlots DEF SlotsInv

\* The listener goes with its backlog and its channel.
LEMMA CloseStep ==
    ASSUME SlotsInv, CloseListener
    PROVE  SlotsInv'
<1>1. InFlight' = InFlight /\ permits' = permits
  BY DEF InFlight, CloseListener, SlotsInv, TlsTypeOK
<1>2. TlsTypeOK'
  BY MaxPendingAssumption DEF CloseListener, SlotsInv, TlsTypeOK, ConnState
<1>3. ChannelHoldsQueued'
  BY DEF CloseListener, ChannelHoldsQueued
<1>4. QED
  BY <1>1, <1>2, <1>3, OthersKeepSlots DEF SlotsInv

\* The ways a task ends.
LEMMA FailStep ==
    ASSUME SlotsInv, NEW c \in Conns, FailOrTimeOut(c) \/ SendFails(c)
    PROVE  SlotsInv'
<1>1. PICK state \in {"failed", "lost"} :
         conn[c] \in {"handshake", "sending"} /\ EndTask(c, state)
  BY DEF FailOrTimeOut, SendFails
<1>2. /\ permits' \in 0 .. MaxPending
      /\ IsFiniteSet(InFlight)'
      /\ SlotsConserved'
  BY <1>1, EndTaskFreesSlot
<1>3. done' = done /\ listener' = listener /\ conn' = [conn EXCEPT ![c] = state]
  BY <1>1 DEF FailOrTimeOut, SendFails, EndTask
<1>4. TlsTypeOK'
  BY <1>2, <1>3 DEF SlotsInv, TlsTypeOK, ConnState
<1>5. ChannelHoldsQueued'
  BY <1>1, <1>3 DEF SlotsInv, TlsTypeOK, ChannelHoldsQueued
<1>6. QED
  BY <1>2, <1>4, <1>5 DEF SlotsInv

LEMMA SendStep ==
    ASSUME SlotsInv, NEW c \in Conns, SendConn(c)
    PROVE  SlotsInv'
<1>1. /\ permits' \in 0 .. MaxPending
      /\ IsFiniteSet(InFlight)'
      /\ SlotsConserved'
  BY EndTaskFreesSlot DEF SendConn
<1>2. /\ done \in Seq(Conns) /\ Len(done) \in Nat /\ conn[c] = "sending"
      /\ done' \in Seq(Conns) /\ Len(done') = Len(done) + 1 /\ done'[Len(done) + 1] = c
      /\ \A i \in 1 .. Len(done) : done'[i] = done[i] /\ done[i] \in Conns
  BY DEF SendConn, SlotsInv, TlsTypeOK
<1>3. conn' = [conn EXCEPT ![c] = "queued"] /\ listener' = listener
  BY DEF SendConn, EndTask
<1>4. Len(done') <= MaxPending
  BY <1>2, MaxPendingAssumption DEF SendConn
<1>5. TlsTypeOK'
  BY <1>1, <1>2, <1>3, <1>4 DEF SlotsInv, TlsTypeOK, ConnState
<1>6. \A i \in 1 .. Len(done) : done[i] # c /\ conn[done[i]] = "queued"
  BY <1>2 DEF SlotsInv, ChannelHoldsQueued
<1>7. \A i \in 1 .. Len(done') : i \in 1 .. Len(done) \/ i = Len(done) + 1
  BY <1>2
<1>8. \A i \in 1 .. Len(done') : conn'[done'[i]] = "queued"
  BY <1>2, <1>3, <1>6, <1>7 DEF SlotsInv, TlsTypeOK
<1>9. \A i, j \in 1 .. Len(done') : done'[i] = done'[j] => i = j
  <2> SUFFICES ASSUME NEW i \in 1 .. Len(done'), NEW j \in 1 .. Len(done'),
                      done'[i] = done'[j]
               PROVE  i = j
    OBVIOUS
  <2>1. CASE i \in 1 .. Len(done) /\ j \in 1 .. Len(done)
    BY <1>2, <2>1 DEF SlotsInv, ChannelHoldsQueued
  <2>2. QED
    BY <1>2, <1>6, <1>7, <2>1
<1>10. QED
  BY <1>1, <1>5, <1>8, <1>9 DEF SlotsInv, ChannelHoldsQueued

\* accept() and its caller, between connections.
LEMMA AcceptSteps ==
    ASSUME SlotsInv, AcceptError \/ WakeUp \/ CallAccept \/ UNCHANGED tlsVars
    PROVE  SlotsInv'
<1>1. UNCHANGED <<conn, permits, done>>
  BY DEF AcceptError, WakeUp, CallAccept, tlsVars
<1>2. InFlight' = InFlight
  BY <1>1 DEF InFlight
<1>3. TlsTypeOK'
  BY <1>1 DEF AcceptError, WakeUp, CallAccept, tlsVars, SlotsInv, TlsTypeOK
<1>4. ChannelHoldsQueued'
  BY <1>1 DEF SlotsInv, ChannelHoldsQueued
<1>5. QED
  BY <1>1, <1>2, <1>3, <1>4, OthersKeepSlots DEF SlotsInv

\* No connection is there yet and every slot is free.
LEMMA SlotsInit == TlsInit => SlotsInv
<1> SUFFICES ASSUME TlsInit PROVE SlotsInv
  OBVIOUS
<1>1. InFlight = {}
  BY DEF TlsInit, InFlight
<1>2. IsFiniteSet(InFlight) /\ Cardinality(InFlight) = 0
  BY <1>1, FS_EmptySet
<1>3. TlsTypeOK
  BY MaxPendingAssumption DEF TlsInit, TlsTypeOK, ConnState
<1>4. QED
  BY <1>2, <1>3, MaxPendingAssumption
     DEF TlsInit, SlotsInv, ChannelHoldsQueued, SlotsConserved

\* Every step is one of these.
LEMMA SlotsStep == SlotsInv /\ [TlsNext]_tlsVars => SlotsInv'
  BY SpawnTakesSlot, ConnectionSteps, ReturnStep, CloseStep, FailStep, SendStep, AcceptSteps
     DEF TlsNext, TcpBranch

\* However handshakes end and whenever the listener is dropped, the slots that are
\* free and those of the tasks are MaxPending together.
THEOREM SlotsCorrect == TlsSpec => [](TlsTypeOK /\ SlotsConserved)
<1>1. SlotsInv => TlsTypeOK /\ SlotsConserved
  BY DEF SlotsInv
<1>2. QED
  BY <1>1, SlotsInit, SlotsStep, PTL DEF TlsSpec, TlsSafety

(***************************************************************************)
(* What becomes of the connections.                                        *)
(***************************************************************************)

\* Who waits for axum is in the channel; who is lost was lost with the listener.
QueuedAreInChannel ==
    \A c \in Conns : conn[c] = "queued" => \E i \in 1 .. Len(done) : done[i] = c

LostWithListener ==
    \A c \in Conns : /\ conn[c] = "lost" => listener = "closed"
                     /\ conn[c] \in {"backlog", "queued"} => listener # "closed"

\* Only SendConn makes a connection wait and only ReturnConn and CloseListener end
\* its wait.
LEMMA ChannelStep ==
    SlotsInv /\ QueuedAreInChannel /\ [TlsNext]_tlsVars => QueuedAreInChannel'
<1> SUFFICES ASSUME SlotsInv, QueuedAreInChannel, [TlsNext]_tlsVars,
                    NEW q \in Conns, conn'[q] = "queued"
             PROVE  \E i \in 1 .. Len(done') : done'[i] = q
  BY DEF QueuedAreInChannel
<1>0. /\ conn \in [Conns -> ConnState]
      /\ done \in Seq(Conns) /\ Len(done) \in Nat
  BY DEF SlotsInv, TlsTypeOK
<1>1. CASE conn[q] = "queued" /\ done' = done
  BY <1>1 DEF QueuedAreInChannel
<1>2. ASSUME NEW c \in Conns, SendConn(c)
      PROVE  \E i \in 1 .. Len(done') : done'[i] = q
  <2>1. /\ Len(done') = Len(done) + 1 /\ done'[Len(done) + 1] = c
        /\ \A i \in 1 .. Len(done) : done'[i] = done[i]
    BY <1>0, <1>2 DEF SendConn
  <2>2. q = c \/ conn[q] = "queued"
    BY <1>0, <1>2 DEF SendConn, EndTask
  <2>3. CASE q = c
    <3>1. Len(done) + 1 \in 1 .. Len(done')
      BY <1>0, <2>1
    <3>2. QED
      BY <2>1, <2>3, <3>1
  <2>4. CASE conn[q] = "queued"
    <3>1. PICK i \in 1 .. Len(done) : done[i] = q
      BY <2>4 DEF QueuedAreInChannel
    <3>2. i \in 1 .. Len(done')
      BY <1>0, <2>1
    <3>3. QED
      BY <2>1, <3>1, <3>2
  <2>5. QED
    BY <2>2, <2>3, <2>4
<1>3. CASE ReturnConn
  <2>1. /\ Len(done) > 0 /\ Head(done) = done[1] /\ Head(done) \in Conns
        /\ Len(done') = Len(done) - 1
        /\ \A i \in 1 .. Len(done') : done'[i] = done[i + 1]
    BY <1>0, <1>3 DEF ReturnConn
  <2>2. conn[q] = "queued" /\ q # done[1]
    BY <1>0, <1>3, <2>1 DEF ReturnConn
  <2>3. PICK i \in 1 .. Len(done) : done[i] = q
    BY <2>2 DEF QueuedAreInChannel
  <2>4. i - 1 \in 1 .. Len(done') /\ i = (i - 1) + 1
    BY <1>0, <2>1, <2>2, <2>3
  <2>5. done'[i - 1] = q
    BY <2>1, <2>3, <2>4
  <2>6. QED
    BY <2>4, <2>5
<1>4. ASSUME NEW c \in Conns,
             \/ ClientConnects(c) \/ SpawnHandshake(c) \/ DropConn(c) \/ CompleteHandshake(c)
             \/ FailOrTimeOut(c) \/ SendFails(c)
      PROVE  conn[q] = "queued" /\ done' = done
  BY <1>0, <1>4 DEF ClientConnects, SpawnHandshake, DropConn, CompleteHandshake,
                    FailOrTimeOut, SendFails, EndTask
<1>5. CASE AcceptError \/ WakeUp \/ CallAccept \/ UNCHANGED tlsVars
  <2>1. conn' = conn /\ done' = done
    BY <1>5 DEF AcceptError, WakeUp, CallAccept, tlsVars
  <2>2. QED
    BY <1>1, <2>1
<1>6. ~CloseListener
  BY <1>0 DEF CloseListener
<1>7. QED
  BY <1>1, <1>2, <1>3, <1>4, <1>5, <1>6 DEF TlsNext, TcpBranch

LEMMA LostStep ==
    SlotsInv /\ LostWithListener /\ [TlsNext]_tlsVars => LostWithListener'
<1> SUFFICES ASSUME SlotsInv, LostWithListener, [TlsNext]_tlsVars, NEW q \in Conns
             PROVE  /\ conn'[q] = "lost" => listener' = "closed"
                    /\ conn'[q] \in {"backlog", "queued"} => listener' # "closed"
  BY DEF LostWithListener
<1> USE DEF LostWithListener
<1>0. conn \in [Conns -> ConnState]
  BY DEF SlotsInv, TlsTypeOK
<1>1. ASSUME NEW c \in Conns, NEW state \in ConnState, conn' = [conn EXCEPT ![c] = state],
             listener' = listener,
             state = "lost" => listener = "closed",
             state \in {"backlog", "queued"} => listener # "closed"
      PROVE  /\ conn'[q] = "lost" => listener' = "closed"
             /\ conn'[q] \in {"backlog", "queued"} => listener' # "closed"
  BY <1>0, <1>1
<1>2. ASSUME NEW c \in Conns,
             ClientConnects(c) \/ SpawnHandshake(c) \/ DropConn(c) \/ CompleteHandshake(c)
      PROVE  \E state \in {"backlog", "handshake", "dropped", "sending"} :
                /\ conn' = [conn EXCEPT ![c] = state]
                /\ listener' = listener
                /\ state = "backlog" => listener # "closed"
  BY <1>2 DEF ClientConnects, SpawnHandshake, DropConn, CompleteHandshake
<1>3. ASSUME NEW c \in Conns, FailOrTimeOut(c) \/ SendFails(c) \/ SendConn(c)
      PROVE  \E state \in {"failed", "lost", "queued"} :
                /\ conn' = [conn EXCEPT ![c] = state]
                /\ listener' = listener
                /\ state = "lost" => listener = "closed"
                /\ state = "queued" => listener # "closed"
  BY <1>3 DEF FailOrTimeOut, SendFails, SendConn, EndTask
<1>4. CASE ReturnConn
  BY <1>0, <1>4 DEF ReturnConn, SlotsInv, TlsTypeOK
<1>5. CASE CloseListener
  BY <1>0, <1>5 DEF CloseListener
<1>6. CASE AcceptError \/ WakeUp \/ CallAccept \/ UNCHANGED tlsVars
  BY <1>6 DEF AcceptError, WakeUp, CallAccept, tlsVars
<1>7. {"backlog", "handshake", "dropped", "sending", "failed", "lost", "queued"}
         \subseteq ConnState
  BY DEF ConnState
<1>8. QED
  BY <1>1, <1>2, <1>3, <1>4, <1>5, <1>6, <1>7 DEF TlsNext, TcpBranch

\* A connection that axum has to get is in the channel, once, as long as the listener
\* is there, and none is lost while it is.
THEOREM NoneIsForgottenCorrect == TlsSpec => []NoneIsForgotten
<1>1. TlsInit => QueuedAreInChannel /\ LostWithListener
  BY DEF TlsInit, QueuedAreInChannel, LostWithListener
<1>2. SlotsInv /\ QueuedAreInChannel /\ LostWithListener => NoneIsForgotten
  BY DEF SlotsInv, TlsTypeOK, ChannelHoldsQueued, QueuedAreInChannel, LostWithListener,
         NoneIsForgotten
<1>3. QED
  BY <1>1, <1>2, SlotsInit, SlotsStep, ChannelStep, LostStep, PTL DEF TlsSpec, TlsSafety

\* What became of a connection stays so, and only a listener without a free slot
\* turns one away.
LEMMA FateStep ==
    SlotsInv /\ [TlsNext]_tlsVars
      => \A c \in Conns :
            /\ conn[c] # "dropped" /\ conn'[c] = "dropped" =>
                  Cardinality(InFlight) = MaxPending
            /\ conn[c] \in {"served", "dropped", "failed", "lost"} => conn'[c] = conn[c]
<1> SUFFICES ASSUME SlotsInv, [TlsNext]_tlsVars, NEW q \in Conns
             PROVE  /\ conn[q] # "dropped" /\ conn'[q] = "dropped" =>
                          Cardinality(InFlight) = MaxPending
                    /\ conn[q] \in {"served", "dropped", "failed", "lost"} =>
                          conn'[q] = conn[q]
  OBVIOUS
<1>0. /\ conn \in [Conns -> ConnState]
      /\ permits + Cardinality(InFlight) = MaxPending
      /\ Cardinality(InFlight) \in Nat
  BY FS_CardinalityType DEF SlotsInv, TlsTypeOK, SlotsConserved
<1>1. ASSUME NEW c \in Conns, DropConn(c)
      PROVE  /\ conn' = [conn EXCEPT ![c] = "dropped"] /\ conn[c] = "backlog"
             /\ Cardinality(InFlight) = MaxPending
  <2>1. permits = 0 /\ conn[c] = "backlog" /\ conn' = [conn EXCEPT ![c] = "dropped"]
    BY <1>1 DEF DropConn
  <2>2. QED
    BY <1>0, <2>1
<1>2. ASSUME NEW c \in Conns,
             \/ ClientConnects(c) \/ SpawnHandshake(c) \/ CompleteHandshake(c)
             \/ FailOrTimeOut(c) \/ SendFails(c) \/ SendConn(c)
      PROVE  /\ conn[c] \in {"unopened", "backlog", "handshake", "sending"}
             /\ \E state \in ConnState \ {"dropped"} : conn' = [conn EXCEPT ![c] = state]
  BY <1>2 DEF ClientConnects, SpawnHandshake, CompleteHandshake, FailOrTimeOut, SendFails,
              SendConn, EndTask, ConnState
<1>3. CASE ReturnConn
  <2>1. /\ Head(done) = done[1] /\ 1 \in 1 .. Len(done)
        /\ conn' = [conn EXCEPT ![Head(done)] = "served"]
    BY <1>3 DEF ReturnConn, SlotsInv, TlsTypeOK
  <2>2. conn[Head(done)] = "queued"
    BY <2>1 DEF SlotsInv, ChannelHoldsQueued
  <2>3. QED
    BY <1>0, <2>1, <2>2
<1>4. CASE CloseListener
  BY <1>0, <1>4 DEF CloseListener
<1>5. CASE AcceptError \/ WakeUp \/ CallAccept \/ UNCHANGED tlsVars
  BY <1>5 DEF AcceptError, WakeUp, CallAccept, tlsVars
<1>6. QED
  BY <1>0, <1>1, <1>2, <1>3, <1>4, <1>5 DEF TlsNext, TcpBranch

\* For every number of slots and of connections.
THEOREM TurnedAwayCorrect == TlsSpec => TurnedAwayWhenFull
  BY SlotsInit, SlotsStep, FateStep, PTL DEF TlsSpec, TlsSafety, TurnedAwayWhenFull

=============================================================================
