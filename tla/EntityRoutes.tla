---------------------------- MODULE EntityRoutes ----------------------------
(***************************************************************************)
(* The entity routes of opensovd-server: what GET answers for each URI,    *)
(* in a given state of the registry.  A handler takes one read guard and   *)
(* does not await while it has it, so its answer is a function of one      *)
(* state.                                                                  *)
(*                                                                         *)
(* An answer is a status and what the answer refers to: the entities of a  *)
(* collection, whose hrefs are the URIs of their capabilities, or the URIs *)
(* of the links of a capabilities object.  Names, translation ids, schemas *)
(* and the text of a URI are left out.                                     *)
(***************************************************************************)
EXTENDS TopologyState

CONSTANTS TagsOf,   \* entity -> its tags
          HasData,  \* the components and apps that have a data provider
          Queries   \* the sets of tags that clients ask for

ASSUME TagsAssumption == DOMAIN TagsOf = Entities
ASSUME HasDataAssumption == HasData \subseteq Entities

Uri(route, entity) == [route |-> route, entity |-> entity]

Href(entity) == Uri("capabilities", entity)

CollectionUri(kind) == [route |-> "list", kind |-> kind]

Ok(refs) == [status |-> 200, refs |-> refs, code |-> "none"]

\* An error has a status and, in its body, a code: the vendor code if there is one,
\* else the error code.  The cause of an internal error is not told.
Failure(status, code) == [status |-> status, refs |-> {}, code |-> code]

ErrorResponse(error) ==
    CASE error = "EntityNotFound"       -> Failure(404, "entity-not-found")
      [] error = "ProviderNotAvailable" -> Failure(404, "provider-not-available")
      [] error = "NotFound"             -> Failure(404, "error-response")
      [] error = "ReadOnly"             -> Failure(400, "error-response")
      [] error = "Internal"             -> Failure(500, "error-response")
      [] error = "BadQuery"             -> Failure(400, "incomplete-request")

EntityNotFound == ErrorResponse("EntityNotFound")

\* The filter of a collection: any of the tags asked for, or no filter at all.
Tagged(entities, query) == {e \in entities : query = {} \/ query \cap TagsOf[e] # {}}

Collection(entities, query) == Ok({Href(e) : e \in Tagged(entities, query)})

(***************************************************************************)
(* Collections.                                                            *)
(***************************************************************************)

EntityList(kind, query) == Collection({e \in Live : e.kind = kind}, query)

ComponentHosts(c, query) ==
    IF c \in DOMAIN components
    THEN Collection({AppRef(a) : a \in AppsOfComponent(c)}, query)
    ELSE EntityNotFound

\* Faulty variant of ComponentBelongsTo: it takes an area that is not live for a
\* component that is not, as AppIsLocatedOn does with the component of an app.
ComponentBelongsToOrNotFound(c, query) ==
    IF c \in DOMAIN components /\ AreaOfComponent(c) # {}
    THEN Collection({AreaRef(r) : r \in AreaOfComponent(c)}, query)
    ELSE EntityNotFound

ComponentBelongsTo(c, query) ==
    IF c \in DOMAIN components
    THEN Collection({AreaRef(r) : r \in AreaOfComponent(c)}, query)
    ELSE EntityNotFound

\* The query is read and ignored.  A component that is not live is reported as if
\* the app were missing.
AppIsLocatedOn(a, query) ==
    IF a \in DOMAIN apps /\ ComponentOfApp(a) # {}
    THEN Ok({Href(ComponentRef(c)) : c \in ComponentOfApp(a)})
    ELSE EntityNotFound

AppBelongsTo(a, query) ==
    IF a \in DOMAIN apps
    THEN Collection({AreaRef(r) : r \in AreaOfApp(a)}, query)
    ELSE EntityNotFound

\* Faulty variant of AreaContains: it reports the rows of the area as they are.
AreaContainsRows(r, query) ==
    IF r \in areas
    THEN Collection({ComponentRef(c) : c \in Row(componentsByArea, r)}
                    \cup {AppRef(a) : a \in Row(appsByArea, r)}, query)
    ELSE EntityNotFound

AreaContains(r, query) ==
    IF r \in areas
    THEN Collection({ComponentRef(c) : c \in ComponentsOfArea(r)}
                    \cup {AppRef(a) : a \in AppsOfArea(r)}, query)
    ELSE EntityNotFound

(***************************************************************************)
(* Capabilities.                                                           *)
(***************************************************************************)

\* The root links to the collections that have an entity.
RootCapabilities == Ok({CollectionUri(e.kind) : e \in Live})

\* The links to what the entity names: there if it names something, whether or
\* not that is live.
AreaLink(e, area) == IF area = NoArea THEN {} ELSE {Uri("belongs-to", e)}
DataLink(e)       == IF e \in HasData THEN {Uri("data", e)} ELSE {}

ComponentCapabilities(c) ==
    LET e == ComponentRef(c)
    IN  IF c \in DOMAIN components
        THEN Ok({Uri("hosts", e)} \cup AreaLink(e, components[c]) \cup DataLink(e))
        ELSE EntityNotFound

\* "is-located-on" of an app is the URI of the component itself.
AppCapabilities(a) ==
    LET e == AppRef(a)
    IN  IF a \in DOMAIN apps
        THEN Ok({Href(ComponentRef(apps[a].host))} \cup AreaLink(e, apps[a].area)
                \cup DataLink(e))
        ELSE EntityNotFound

AreaCapabilities(r) ==
    IF r \in areas THEN Ok({Uri("contains", AreaRef(r))}) ELSE EntityNotFound

(***************************************************************************)
(* GET of a URI that an answer contained.                                  *)
(***************************************************************************)

Capabilities(e) ==
    CASE e.kind = "component" -> ComponentCapabilities(e.id)
      [] e.kind = "app"       -> AppCapabilities(e.id)
      [] e.kind = "area"      -> AreaCapabilities(e.id)

BelongsTo(e, query) ==
    CASE e.kind = "component" -> ComponentBelongsTo(e.id, query)
      [] e.kind = "app"       -> AppBelongsTo(e.id, query)

\* The data routes answer for the live entities that have a provider; what the
\* provider returns becomes the answer.
DataAnswer(e, outcome) ==
    CASE e \notin Live                  -> EntityNotFound
      [] e \in Live \ HasData           -> ErrorResponse("ProviderNotAvailable")
      [] e \in Live /\ e \in HasData     -> IF outcome = "Ok" THEN Ok({})
                                          ELSE ErrorResponse(outcome)

\* The lists of a DataQuery (groups, categories, tags) are extracted with
\* axum::extract::Query, which takes no lists: any of them is a bad query.
DataCollection(e, query) ==
    IF query = {} THEN DataAnswer(e, "Ok") ELSE ErrorResponse("BadQuery")

Get(uri, query) ==
    CASE uri.route = "capabilities"  -> Capabilities(uri.entity)
      [] uri.route = "belongs-to"    -> BelongsTo(uri.entity, query)
      [] uri.route = "hosts"         -> ComponentHosts(uri.entity.id, query)
      [] uri.route = "is-located-on" -> AppIsLocatedOn(uri.entity.id, query)
      [] uri.route = "contains"      -> AreaContains(uri.entity.id, query)
      [] uri.route = "data"          -> DataCollection(uri.entity, query)

-----------------------------------------------------------------------------
(***************************************************************************)
(* Properties.                                                             *)
(***************************************************************************)

\* The answers of all collections to a query.
Listed(query) ==
    UNION ({EntityList(kind, query).refs : kind \in {"component", "app", "area"}}
           \cup {ComponentHosts(c, query).refs : c \in ComponentIds}
           \cup {ComponentBelongsTo(c, query).refs : c \in ComponentIds}
           \cup {AppIsLocatedOn(a, query).refs : a \in AppIds}
           \cup {AppBelongsTo(a, query).refs : a \in AppIds}
           \cup {AreaContains(r, query).refs : r \in AreaIds})

\* Every href of every collection can be followed, however stale the rows of the
\* indexes are: no collection tells of an entity that is not live.
HrefsCanBeFollowed ==
    \A query \in Queries : \A uri \in Listed(query) : Get(uri, {}).status = 200

\* Every link of a capabilities object can be followed, with one exception: an
\* app links to its component also where that is not live, and then the
\* is-located-on collection of the app is not there either.
LinksCanBeFollowed ==
    \A e \in Live : \A uri \in Capabilities(e).refs :
        \/ Get(uri, {}).status = 200
        \/ /\ e.kind = "app"
           /\ uri = Href(ComponentRef(apps[e.id].host))
           /\ AppIsLocatedOn(e.id, {}) = EntityNotFound

\* "Returns the list of data resources available for a component, optionally
\* filtered by category, group, or tags." (component_data_list, routes/data.rs)
DataListTakesFilters ==
    \A e \in Live \cap HasData : \A query \in Queries :
        Get(Uri("data", e), query).status = 200

=============================================================================
