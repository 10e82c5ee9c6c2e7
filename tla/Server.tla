------------------------------- MODULE Server -------------------------------
(***************************************************************************)
(* The life of an opensovd-server and the way of a request through it.     *)
(*                                                                         *)
(* A program (the gateway) reads its arguments, binds its socket, builds   *)
(* the server, says that it is ready and calls serve(), which spawns       *)
(* discovery, opens the listener and serves until the shutdown future      *)
(* resolves; then it takes no more connections, waits for the requests it  *)
(* has and returns.  The default shutdown future is the first SIGINT or    *)
(* SIGTERM after it was first polled; before that a signal kills the       *)
(* process.  It may also crash, and whoever started it starts it again     *)
(* with the same configuration; the one thing that outlives it is the file *)
(* of a Unix socket.                                                       *)
(*                                                                         *)
(* A request goes through the layers of build_router, from the outermost   *)
(* to what its path names.  Each layer answers or passes it on, and the    *)
(* client may leave at any await.  Bearer tokens expire while requests are *)
(* under way.  What a handler does is left to the other modules; the       *)
(* socket, TLS and axum::serve are external.                               *)
(***************************************************************************)
EXTENDS Naturals, Sequences

CONSTANTS Sockets,      \* what the program may be told to listen on
          Requests,     \* requests, each on a connection of its own
          Tokens,       \* bearer tokens a request can carry, NoToken is one
          NoToken,      \* there is no Authorization header
          Issued,       \* the tokens that are genuine
          RoutePaths,   \* paths that a SOVD route answers
          ServicePaths, \* paths below a registered service
          OtherPaths,   \* paths that nothing answers
          Permits,      \* pairs of a token and a path that the policy allows
          Cors,         \* what the program may be told of CORS
          None          \* no identity, no answer

Paths == RoutePaths \cup ServicePaths \cup OtherPaths

Answers == {"user", "401", "403", "routes", "service", "404"}

\* A listener from systemd, an address, an abstract name, a path.
ASSUME SocketsAssumption == Sockets \subseteq {"systemd", "tcp", "abstract", "path"}
ASSUME TokensAssumption == NoToken \in Tokens /\ Issued \subseteq Tokens \ {NoToken}
ASSUME PathsAssumption == RoutePaths \cap ServicePaths = {}
ASSUME CorsAssumption ==
    \A cors \in Cors :
        cors \subseteq {"origins", "any origin", "any method", "any header", "credentials",
                      "malformed"}
ASSUME NoneAssumption == None \notin Tokens \cup Answers \cup {"()"}
ASSUME PermitsAssumption == Permits \subseteq Tokens \X Paths

VARIABLES config,     \* how the program configured the server
          stage,      \* how far the program and serve() are
          armed,      \* the shutdown future was polled: signals are caught
          shutdown,   \* the shutdown future has resolved
          discovery,  \* the task that serve() spawned
          notified,   \* readiness was notified in this life
          socketFile, \* there is a file at the path of the socket
          served,     \* the program served in this life or an earlier one
          valid,      \* genuine tokens that have not expired
          req         \* request -> where it is and what is known of it

fileVars   == <<notified, socketFile, served>>
lifeVars   == <<stage, armed, shutdown, discovery, fileVars>>
serverVars == <<config, lifeVars, valid, req>>

\* run() of the gateway takes a policy only with a JWT key.
AuthArgs == {<<"NoAuth", FALSE>>, <<"Jwt", FALSE>>, <<"Jwt", TRUE>>}

\* What may be wrong with a value or a file that the program is given, beyond how its
\* arguments go together.
Faults == {"none", "jwt key", "policies", "url", "served directory", "service path",
           "tls files"}

Config ==
    {c \in [socket : Sockets, tls : {"none", "half", "cert and key"}, cors : Cors,
            discovery : BOOLEAN, authn : {"NoAuth", "Jwt"}, policy : BOOLEAN,
            fault : Faults] :
        /\ <<c.authn, c.policy>> \in AuthArgs
        /\ c.fault = "jwt key" => c.authn = "Jwt"
        /\ c.fault = "policies" => c.policy
        /\ c.fault = "tls files" => c.tls = "cert and key"}

\* Before the socket is bound: the key and its algorithm, the policies, the URL.
ArgumentsRead == config.fault \notin {"jwt key", "policies", "url"}

\* A certificate and its key, or neither.
TlsArgs == config.tls # "half"

\* With credentials neither any origin nor any header may be allowed.
CreateCorsLayer ==
    "origins" \in config.cors =>
        /\ "malformed" \notin config.cors
        /\ "credentials" \in config.cors =>
              config.cors \cap {"any origin", "any header"} = {}

\* What the CORS layer of tower-http asserts when the router takes it in: not any
\* method with credentials either.
CorsUsable ==
    {"origins", "credentials"} \subseteq config.cors =>
        config.cors \cap {"any origin", "any method", "any header"} = {}

\* The router takes the services and the layers, or panics: a service may have the
\* path of another route.
BuildRouter == config.fault # "service path" /\ CorsUsable

\* TLS is for TCP only, and its files are read now.
TlsBuild ==
    config.tls # "none" =>
        config.socket \in {"systemd", "tcp"} /\ config.fault # "tls files"

\* serve() gets as far as serving.
Opens == BuildRouter /\ TlsBuild

Layers == {"user", "authn", "authz", "service", "routes"}

Request ==
    [at : {"none", "connected", "inside", "closed"}, token : Tokens,
     path : Paths \cup {None}, todo : Seq(Layers), identity : Tokens \cup {"()", None},
     answer : Answers \cup {None}, fresh : BOOLEAN]

NoRequest ==
    [at |-> "none", token |-> NoToken, path |-> None, todo |-> <<>>,
     identity |-> None, answer |-> None, fresh |-> FALSE]

ServerInit ==
    /\ config \in Config
    /\ stage = "starting"
    /\ armed = FALSE
    /\ shutdown = FALSE
    /\ discovery = "none"
    /\ notified = FALSE
    /\ socketFile = FALSE
    /\ served = FALSE
    /\ valid = Issued
    /\ req = [r \in Requests |-> NoRequest]

(***************************************************************************)
(* The program and serve().                                                *)
(***************************************************************************)

ReadArguments ==
    /\ stage = "starting"
    /\ stage' = IF ArgumentsRead THEN "binding" ELSE "failed"
    /\ UNCHANGED <<config, armed, shutdown, discovery, fileVars, valid, req>>

\* Faulty variant of Bind: an abstract name is bound as a path.
BindNameAsPath ==
    /\ stage = "binding"
    /\ IF config.socket \in {"path", "abstract"} /\ socketFile
       THEN stage' = "failed" /\ UNCHANGED socketFile
       ELSE /\ stage' = "assembling"
            /\ socketFile' = (config.socket \in {"path", "abstract"})
    /\ UNCHANGED <<config, armed, shutdown, discovery, notified, served, valid, req>>

\* A path is bound only if there is no file; nobody else has the address.
Bind ==
    /\ stage = "binding"
    /\ IF config.socket = "path" /\ socketFile
       THEN stage' = "failed" /\ UNCHANGED socketFile
       ELSE stage' = "assembling" /\ socketFile' = (config.socket = "path")
    /\ UNCHANGED <<config, armed, shutdown, discovery, notified, served, valid, req>>

\* TLS arguments, CORS, the served directory, build() and the notification.
Assemble ==
    /\ stage = "assembling"
    /\ IF TlsArgs /\ CreateCorsLayer /\ config.fault # "served directory"
       THEN stage' = "ready" /\ notified' = TRUE
       ELSE stage' = "failed" /\ UNCHANGED notified
    /\ UNCHANGED <<config, armed, shutdown, discovery, socketFile, served, valid, req>>

SpawnDiscovery ==
    /\ stage = "ready"
    /\ stage' = "opening"
    /\ discovery' = IF config.discovery THEN "starting" ELSE "none"
    /\ UNCHANGED <<config, armed, shutdown, fileVars, valid, req>>

OpenFails ==
    /\ stage = "opening"
    /\ ~Opens
    /\ stage' = "failed"
    /\ UNCHANGED <<config, armed, shutdown, discovery, fileVars, valid, req>>

Open ==
    /\ stage = "opening"
    /\ Opens
    /\ stage' = "serving"
    /\ served' = TRUE
    /\ armed' = TRUE
    /\ UNCHANGED <<config, shutdown, discovery, notified, socketFile, valid, req>>

\* run_discovery looks at the shutdown future once its providers have started;
\* it ends at once if none did.
DiscoveryStarts ==
    /\ stage # "exited"
    /\ discovery = "starting"
    /\ \/ discovery' = "ended" /\ UNCHANGED armed
       \/ discovery' = "running" /\ armed' = TRUE
    /\ UNCHANGED <<config, stage, shutdown, fileVars, valid, req>>

DiscoveryEnds ==
    /\ stage # "exited"
    /\ discovery = "running"
    /\ discovery' = "ended"
    /\ UNCHANGED <<config, stage, armed, shutdown, fileVars, valid, req>>

\* SIGINT or SIGTERM.
Signal ==
    /\ stage # "exited"
    /\ ~shutdown
    /\ IF armed THEN shutdown' = TRUE /\ UNCHANGED <<stage, discovery>>
                ELSE stage' = "exited" /\ discovery' = "ended" /\ UNCHANGED shutdown
    /\ UNCHANGED <<config, armed, fileVars, valid, req>>

\* The process is killed: its tasks and connections are gone, a socket file stays.
Crash ==
    /\ stage # "exited"
    /\ stage' = "exited"
    /\ discovery' = "ended"
    /\ req' = [r \in Requests |-> NoRequest]
    /\ UNCHANGED <<config, armed, shutdown, fileVars, valid>>

\* Started again with the same configuration.
Restart ==
    /\ stage = "exited"
    /\ stage' = "starting"
    /\ armed' = FALSE
    /\ shutdown' = FALSE
    /\ discovery' = "none"
    /\ notified' = FALSE
    /\ req' = [r \in Requests |-> NoRequest]
    /\ UNCHANGED <<config, socketFile, served, valid>>

\* Somebody removes the file of a socket that nobody listens on.
CleanUp ==
    /\ stage = "exited"
    /\ socketFile
    /\ socketFile' = FALSE
    /\ UNCHANGED <<config, stage, armed, shutdown, discovery, notified, served, valid, req>>

\* Faulty variant of Drain: one of the calls of axum::serve is not told of the
\* shutdown.
DrainTcpOnly ==
    /\ stage = "serving"
    /\ shutdown
    /\ config.socket = "tcp"
    /\ stage' = "draining"
    /\ UNCHANGED <<config, armed, shutdown, discovery, fileVars, valid, req>>

Drain ==
    /\ stage = "serving"
    /\ shutdown
    /\ stage' = "draining"
    /\ UNCHANGED <<config, armed, shutdown, discovery, fileVars, valid, req>>

InProgress(r) == req[r].at \in {"connected", "inside"}

\* Faulty variant of Return: serve() is dropped when the shutdown resolves.
ReturnAtOnce ==
    /\ stage = "draining"
    /\ stage' = "returned"
    /\ UNCHANGED <<config, armed, shutdown, discovery, fileVars, valid, req>>

Return ==
    /\ stage = "draining"
    /\ \A r \in Requests : ~InProgress(r)
    /\ stage' = "returned"
    /\ UNCHANGED <<config, armed, shutdown, discovery, fileVars, valid, req>>

\* main returns; the runtime drops the tasks that are left.
Exit ==
    /\ stage \in {"returned", "failed"}
    /\ stage' = "exited"
    /\ discovery' = "ended"
    /\ UNCHANGED <<config, armed, shutdown, fileVars, valid, req>>

(***************************************************************************)
(* A request.                                                              *)
(***************************************************************************)

Target(path) == IF path \in ServicePaths THEN "service" ELSE "routes"

\* Faulty variant of Pipeline: the services are nested after the layers.
PipelineServicesOutside(path) ==
    IF path \in ServicePaths THEN <<"user", "service">>
                             ELSE <<"user", "authn", "authz", "routes">>

\* What a request meets, from the outside in; the fallback for unknown paths is
\* inside the layers too.
Pipeline(path) == <<"user", "authn", "authz", Target(path)>>

Connect(r) ==
    /\ stage = "serving"
    /\ req[r].at = "none"
    /\ req' = [req EXCEPT ![r].at = "connected"]
    /\ UNCHANGED <<config, lifeVars, valid>>

Receive(r, token, path) ==
    /\ req[r].at = "connected"
    /\ req' = [req EXCEPT ![r] =
          [@ EXCEPT !.at = "inside", !.token = token, !.path = path,
                    !.todo = Pipeline(path), !.fresh = token \in valid]]
    /\ UNCHANGED <<config, lifeVars, valid>>

\* A connection with no request on it is closed by the shutdown.
CloseIdle(r) ==
    /\ stage = "draining"
    /\ req[r].at = "connected"
    /\ req' = [req EXCEPT ![r].at = "closed"]
    /\ UNCHANGED <<config, lifeVars, valid>>

Disconnect(r) ==
    /\ InProgress(r)
    /\ req' = [req EXCEPT ![r] = [NoRequest EXCEPT !.at = "closed"]]
    /\ UNCHANGED <<config, lifeVars, valid>>

In(r, layer) ==
    /\ req[r].at = "inside"
    /\ Head(req[r].todo) = layer
    /\ UNCHANGED <<config, lifeVars, valid>>

Pass(r, identity) ==
    req' = [req EXCEPT ![r].todo = Tail(@), ![r].identity = identity]

Answer(r, answer) ==
    req' = [req EXCEPT ![r].at = "closed", ![r].answer = answer,
                       ![r].todo = <<>>, ![r].identity = None]

\* Tracing and CORS of the gateway, or whatever the program adds: it may answer
\* by itself, as CORS does for a preflight.
UserLayer(r) == In(r, "user") /\ (Pass(r, req[r].identity) \/ Answer(r, "user"))

\* NoAuth takes everyone for (), JwtAuthenticator only who has a valid token.
Identities(r) ==
    IF config.authn = "NoAuth" THEN {"()"} ELSE {req[r].token} \cap valid

Authenticate(r) ==
    /\ In(r, "authn")
    /\ IF Identities(r) = {} THEN Answer(r, "401")
       ELSE \E identity \in Identities(r) : Pass(r, identity)

\* AllowAll and the policy engine, whose evaluation may fail, which denies.
Allowed(r) == config.policy => <<req[r].identity, req[r].path>> \in Permits

Authorize(r) ==
    /\ In(r, "authz")
    /\ IF req[r].identity = None THEN Answer(r, "401")
       ELSE \/ Allowed(r) /\ Pass(r, req[r].identity)
            \/ config.policy /\ Answer(r, "403")

Handle(r) ==
    \/ In(r, "service") /\ Answer(r, "service")
    \/ In(r, "routes") /\ Answer(r, IF req[r].path \in RoutePaths THEN "routes" ELSE "404")

Expire(token) ==
    /\ stage # "exited"
    /\ token \in valid
    /\ valid' = valid \ {token}
    /\ UNCHANGED <<config, lifeVars, req>>

LayerStep(r) == UserLayer(r) \/ Authenticate(r) \/ Authorize(r) \/ Handle(r)

LifeStep ==
    \/ ReadArguments \/ Bind \/ Assemble \/ SpawnDiscovery
    \/ OpenFails \/ Open \/ Drain \/ Return \/ Exit

ProcessStep == Signal \/ Crash \/ Restart \/ CleanUp

ServerNext ==
    \/ LifeStep \/ DiscoveryStarts \/ DiscoveryEnds \/ ProcessStep
    \/ \E r \in Requests : \/ Connect(r) \/ CloseIdle(r) \/ Disconnect(r) \/ LayerStep(r)
                           \/ \E token \in Tokens, path \in Paths : Receive(r, token, path)
    \/ \E token \in Tokens : Expire(token)

\* The program goes on, every layer and every handler comes to an end (or its
\* client leaves), and hyper closes idle connections when it is told to.
ServerFairness ==
    /\ WF_serverVars(LifeStep)
    /\ \A r \in Requests : WF_serverVars(LayerStep(r)) /\ WF_serverVars(CloseIdle(r))

ServerSpec == ServerInit /\ [][ServerNext]_serverVars /\ ServerFairness

-----------------------------------------------------------------------------

\* Type invariant, with the life of the server: requests are let in only once it
\* serves, and while it serves a shutdown can be heard.
ServerTypeOK ==
    /\ config \in Config
    /\ stage \in {"starting", "binding", "assembling", "ready", "opening", "serving", "draining",
                  "returned", "failed", "exited"}
    /\ discovery \in {"none", "starting", "running", "ended"}
    /\ valid \subseteq Issued
    /\ armed \in BOOLEAN /\ shutdown \in BOOLEAN
    /\ notified \in BOOLEAN /\ socketFile \in BOOLEAN /\ served \in BOOLEAN
    /\ req \in [Requests -> Request]
    /\ stage \in {"serving", "draining", "returned"} => armed
    /\ shutdown => armed

\* Nothing but the two layers decides who gets in, and they decide right whatever
\* expires meanwhile: a route, a service or even the answer that there is none is
\* for those only whose token was valid when the request came and whose path the
\* policy allows; 401 is for those only whose token is not valid, 403 for those
\* only who were let in by the first layer.
AdmissionIsEnforced ==
    \A r \in Requests :
        /\ req[r].answer \in {"routes", "service", "404"} =>
              /\ config.authn = "Jwt" => req[r].fresh
              /\ config.policy => <<req[r].token, req[r].path>> \in Permits
        /\ req[r].answer = "401" => config.authn = "Jwt" /\ req[r].token \notin valid
        /\ req[r].answer = "403" => config.policy /\ req[r].fresh

\* The server ends no connection that has a request on it: until each of them is
\* answered or its client has left, serve() does not return, whatever signal comes
\* and however discovery ends.
NobodyIsCutOff ==
    \A r \in Requests : InProgress(r) => stage \in {"serving", "draining"}

\* A program that fails to start never served with that configuration, unless it
\* finds the file of its own socket, left by an earlier life; and one that fails
\* after it said that it is ready fails over what only serve() looks at.
FailuresAreExplained ==
    stage = "failed" =>
        /\ served => config.socket = "path" /\ socketFile
        /\ notified => ~Opens

\* A signal that is heard ends the program, wherever serve() is, on whatever kind
\* of listener.
ShutdownEndsServer == shutdown ~> stage = "exited"

\* How many steps a request is from its answer at most: it comes, and four layers.
Distance(r) ==
    IF req[r].at = "connected" THEN 5
    ELSE IF req[r].at = "inside" THEN Len(req[r].todo) ELSE 0

\* A request that a draining server waits for always has something to come: the
\* close of its idle connection or one of the layers.
DrainGoesOn ==
    stage = "draining" =>
        \A r \in Requests :
            req[r].at = "inside" =>
                /\ Distance(r) > 0
                /\ Head(req[r].todo) \in Layers

\* A server that drains only comes closer to its end: no connection is new, and
\* whatever happens to a request brings it closer to its answer.
DrainComesToAnEnd ==
    [][stage = "draining" /\ stage' = "draining" =>
          \A r \in Requests : req'[r] = req[r] \/ Distance(r)' < Distance(r)]_serverVars

=============================================================================
