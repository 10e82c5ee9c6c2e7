------------------------------- MODULE Client -------------------------------
(***************************************************************************)
(* opensovd-client and the server it talks to, up to the text of the URIs: *)
(* a method of the client writes a URI, the connector reaches the server   *)
(* or not, the router finds a handler, the handler answers from the state  *)
(* of the registry, and the client makes its result of the answer.         *)
(*                                                                         *)
(* Ids are texts here.  An exchange is not interrupted: what the registry  *)
(* does meanwhile is the subject of DataRoutes and McpTopology.            *)
(***************************************************************************)
EXTENDS EntityRoutes, SovdUris

CONSTANTS Addresses,  \* what servers listen on, each on one: a host or a Unix socket
          Clients,    \* the clients that are built: base URI and connector
          Items,      \* ids of data resources
          Texts       \* texts that an id may have

\* Ids are strings of the SOVD API.
ASSUME IdsAssumption ==
    ComponentIds \cup AppIds \cup AreaIds \cup Items \cup Texts \subseteq Seq(STRING)

\* The text of a URI begins with the host.
ASSUME ClientsAssumption ==
    \A client \in Clients : client.base \in Seq(STRING) \ {<<>>} /\ client.base[1] # "?"

(***************************************************************************)
(* The client.                                                             *)
(***************************************************************************)

\* What the builder makes of the text of a URI and a connector.  The URI is printed
\* again for each request, and one without a path is printed with a "/".
Build(uri, connector) ==
    [base |-> IF Len(uri) = 1 THEN uri \o <<"/">> ELSE uri, connector |-> connector]

Host(client) == client.base[1]

\* A Unix connector dials its socket whatever the URI says.
UnixSocket(client) == client.connector

Dialled(client) == IF client.connector = "http" THEN Host(client) ELSE UnixSocket(client)

\* What a method asks for, and how: the call that it means to make, the HTTP
\* method, and whether the answer should have a schema.
Asks(method, call, schema) == [method |-> method, call |-> call, schema |-> schema]

Gets(route, kind, id) == Asks("GET", Call(route, kind, id, <<>>), FALSE)

Puts(kind, id, item) == Asks("PUT", Call("data-item", kind, id, item), FALSE)

ListEntities == {Asks("GET", Call("list", k, <<>>, <<>>), s) : k \in Kinds, s \in BOOLEAN}

ComponentMethods == {Gets(r, "component", id) : id \in ComponentIds,
                     r \in {"hosts", "belongs-to", "data-categories", "data-groups"}}

AppMethods == {Gets(r, "app", id) : id \in AppIds,
               r \in {"is-located-on", "belongs-to", "data-categories", "data-groups"}}

AreaMethods == {Gets("contains", "area", id) : id \in AreaIds}

DataMethods(kind, ids) ==
    {Asks("GET", Call("data", kind, id, <<>>), s) : id \in ids, s \in BOOLEAN}
    \cup {Asks("GET", Call("data-item", kind, id, item), s) :
             id \in ids, item \in Items, s \in BOOLEAN}
    \cup {Puts(kind, id, item) : id \in ids, item \in Items}

Methods == ListEntities \cup ComponentMethods \cup AppMethods \cup AreaMethods
           \cup DataMethods("component", ComponentIds) \cup DataMethods("app", AppIds)

MethodPath(call) ==
    LET entity == <<"/", Plural[call.kind], "/">> \o ClientEncode(call.id)
    IN  CASE call.route = "list"      -> <<"/", Plural[call.kind]>>
          [] call.route = "data-item" -> entity \o <<"/", "data", "/">>
                                         \o ClientEncode(call.item)
          [] call.route \notin {"list", "data-item"} -> entity \o <<"/", call.route>>

SchemaQuery(schema) == IF schema THEN <<"?", "include-schema=true">> ELSE <<>>

\* The path is appended to the base URI as that is printed.
BuildUriWithQuery(base, path, schema) == base \o path \o SchemaQuery(schema)

RequestText(client, m) == BuildUriWithQuery(client.base, MethodPath(m.call), m.schema)

(***************************************************************************)
(* The server.                                                             *)
(***************************************************************************)

\* Whether the connector finds a server, and the call that the router makes of the
\* text.  The registry does not change either.
Reaches(client) == Dialled(client) \in Addresses

Arrives == [client \in Clients |-> [m \in Methods |-> Calls(RequestText(client, m))]]

EntityOf(call) == [kind |-> call.kind, id |-> call.id]

\* What the body of the answer is; the lists of all entities and those of related
\* entities have the same type.
BodyType(route) ==
    CASE route \in {"list", "hosts", "belongs-to", "is-located-on", "contains"} -> "Entities"
      [] route \in {"root", "capabilities"} -> "EntityCapabilities"
      [] route = "data-item"                -> "ReadResponse"
      [] route \in DataCollections \cup {"version-info"} -> route

Handle(call, outcome) ==
    CASE call.route = "list"      -> EntityList(call.kind, {})
      [] call.route = "root"      -> RootCapabilities
      [] call.route = "data-item" -> DataAnswer(EntityOf(call), outcome)
      [] call.route \in {"data-categories", "data-groups"} -> DataAnswer(EntityOf(call), outcome)
      [] call.route \in {"capabilities", "hosts", "belongs-to", "is-located-on", "contains",
                         "data"} ->
            Get([route |-> call.route, entity |-> EntityOf(call)], {})

(***************************************************************************)
(* The result of a method.                                                 *)
(***************************************************************************)

\* What the provider makes of a data route; only the resource itself can be missing
\* or read-only.
Outcomes(call) == {"Ok", "Internal"} \cup IF call.route = "data-item"
                                         THEN {"NotFound", "ReadOnly"} ELSE {}

Fails(error, status, code) == [error |-> error, status |-> status, code |-> code]

Succeeds == [error |-> "none", status |-> 200, code |-> "none"]

FromAnswer(m, call, answer) ==
    CASE answer.status # 200 -> Fails("ApiError", answer.status, answer.code)
      [] answer.status = 200 -> IF BodyType(call.route) = BodyType(m.call.route)
                                THEN Succeeds ELSE Fails("Json", 200, "none")

\* The server is not reached; there is no route; the route does not take PUT; the
\* handler answers.
Result(client, m, outcome) ==
    LET calls == Arrives[client][m]
        call  == CHOOSE c \in calls : TRUE
    IN  IF ~Reaches(client) THEN Fails("Service", 0, "none")
        ELSE IF calls = {} THEN Fails("ApiError", 404, "none")
        ELSE IF m.method = "PUT" /\ call.route # "data-item" THEN Fails("ApiError", 405, "none")
        ELSE FromAnswer(m, call, Handle(call, outcome))

-----------------------------------------------------------------------------
(***************************************************************************)
(* Properties.                                                             *)
(***************************************************************************)

\* A base URI of the form that the documentation of connect() asks for: it ends
\* with the version prefix.
Proper(client) ==
    Reaches(client) /\ client.base = <<Host(client)>> \o V1Prefix

\* What is appended to a URI with a query becomes part of the query.
HasQuery(client) == \E i \in DOMAIN client.base : client.base[i] = "?"

Named(call) ==
    /\ call.route # "list" => call.id # <<>>
    /\ call.route = "data-item" => call.item # <<>>

\* Whatever the characters of an id, a proper client reaches the handler it means
\* with that id, and so does a client that follows the text of an href.
TextsArrive ==
    \A client \in Clients : Proper(client) =>
        \A id \in Texts \ {<<>>}, item \in Texts \ {<<>>} :
            LET call == Call("data-item", "app", id, item)
            IN  Calls(client.base \o MethodPath(call)) = {call}

\* What a client is told is about what it named, for every spelling of ids and
\* whatever base URI without a query the client was built with: if it is the right
\* one, the method succeeds for a live entity and an error has a code that tells
\* what is missing; if it is not, the method fails, and without a code.  With a
\* query in the base URI every method gets the base URI itself.
ClientFindsWhatItNames ==
    /\ TextsArrive
    /\ \A client \in Clients, m \in Methods : \A outcome \in Outcomes(m.call) :
          LET result == Result(client, m, outcome)
              e      == EntityOf(m.call)
          IN  /\ IF HasQuery(client) THEN Arrives[client][m] = Calls(client.base)
                 ELSE result.error = "none" => Arrives[client][m] = {m.call}
              /\ Proper(client) /\ Named(m.call) =>
                    /\ result.error \in {"none", "ApiError"}
                    /\ result.error = "ApiError" => result.code # "none"
                    /\ result.code = "entity-not-found" =>
                          e \notin Live \/ m.call.route = "is-located-on"

\* What a client finds that knows no path but version-info and follows the texts
\* it is given: the base URI, the collections, the hrefs.
Uris == {CollectionUri(k) : k \in Kinds} \cup {Href(e) : e \in Entities}

Leads == [client \in Clients |-> [uri \in Uris |-> Calls(LinkText(Host(client), uri))]]

FindsRoot == [client \in Clients |->
    /\ Calls(<<Host(client)>> \o NormalizedBase \o <<"/", "version-info">>)
          = {Call("version-info", "server", <<>>, <<>>)}
    /\ Calls(VersionedUri(Host(client))) = {Call("root", "server", <<>>, <<>>)}]

Found(client, query) ==
    {e \in Entities :
        /\ CollectionUri(e.kind) \in RootCapabilities.refs
        /\ Leads[client][CollectionUri(e.kind)] = {Call("list", e.kind, <<>>, <<>>)}
        /\ Href(e) \in EntityList(e.kind, query).refs
        /\ \E call \in Leads[client][Href(e)] :
              EntityOf(call) = e /\ Handle(call, "Ok").status = 200}

\* From version-info on, every live entity is found, and with a filter every live
\* entity with one of the tags; an entity whose id is empty is the exception.
EverythingCanBeFound ==
    \A client \in Clients, query \in Queries : Reaches(client) =>
        /\ FindsRoot[client]
        /\ Found(client, query) = Tagged({e \in Live : e.id # <<>>}, query)

\* "URI of the Entity including `base_uri`" (the href of an EntityReference,
\* models/discovery.rs)
HrefsIncludeBase ==
    \A client \in Clients, query \in Queries : \A uri \in Listed(query) :
        LET base == <<Host(client)>> \o NormalizedBase
        IN  SubSeq(LinkText(Host(client), uri), 1, Len(base)) = base

=============================================================================
