# A formal model of OpenSOVD

This directory models the parts of the repository that change state together: the
registry of entities, the lock and the events around it, the discovery task, the
request handlers, the life of the server and the layers around its routes, the TLS
listener, the MCP server, the data provider, and the URIs by which the server, the client
library and whoever follows an href must agree on an entity. TLC checks small instances;
TLAPS proves for every instance the safety properties that the runs check on them.

Run everything here:

    tlc -workers 2 -config TopologyEvents.cfg MCTopology.tla     # a run: a .cfg and its MC module
    tlapm TopologyProofs.tla                                     # a proof module

## The system

An OpenSOVD server answers HTTP requests about a vehicle: its components, the apps on
them, the areas both belong to, and the data they provide.

| Part | State | Operations | Modelled in |
|---|---|---|---|
| `Topology`, data structure (`opensovd-core/src/topology.rs`, `entity/`) | three collections, three relationship indexes | insert and remove of each kind, relationship queries | `TopologyEvents`, `TopologyState` |
| `Topology`, guards and events (same file) | a `tokio::sync::RwLock`, the events a write guard has collected, a broadcast channel | `read`, `write`, `subscribe`, changes under a guard, drop of a guard | `RwLock`, `Topology`, `AtomicRegistry` |
| Discovery (`server.rs: run_discovery`, `core/src/discovery.rs`) | streams of the providers, the batch in hand | start, take an item, apply it, stop | `Discovery`, `DiscoveryFeed` |
| Entity routes (`routes/entities/`, `routes/mod.rs`, `routes/error.rs`) | none | lists, capabilities, relationship collections, the root capabilities, errors | `EntityRoutes` |
| URIs (`routes/`, `server.rs: normalize_base`, the client's `encode`) | none | what a handler writes, what the router reads | `SovdUris` |
| Client library (`opensovd-client`) | none | build a client, the methods, what becomes of an answer | `Client` |
| Data routes (`routes/data.rs`) | one future per request, with a read guard | look up, call the data provider, answer, be dropped | `DataRoutes` |
| Data provider (`opensovd-providers/src/data/builder.rs`) | resources in order | the builder's calls; list, read, write, categories, groups, tags | `DataProvider` |
| TLS listener (`tls.rs`) | semaphore, channel, handshake tasks | `accept`, the tasks, the timeout, close | `TlsListener` |
| MCP server (`opensovd-cli/mcp`) | the service, the calls in progress | connect, `read_resource`, the end by input or signal | `McpTopology` |
| Server builder and lifecycle (`server.rs`), gateway program (`gateway/src/main.rs`) | how far `serve()` is, the shutdown future, the spawned discovery task, connections, the file of a Unix socket | arguments, bind, `build`, `serve`, signals, graceful shutdown, exit, crash and restart | `Server` |
| Authentication and authorization (`auth.rs`, `opensovd-extra`) | the identity of a request | the two layers of the router | `Server` |
| Units, mocks, constant resources, request body, connection info | none | | not modelled: data and type conversions |

How they interact. The discovery task and the handlers share one `Topology`. Handlers
take read guards; discovery takes the write guard, applies a batch of removals and
additions and drops it, which sends the events and lets go of the lock. The handlers
of the data routes keep their read guard while they await a data provider, which is
code of somebody else. The TLS listener feeds connections to axum; a closed connection
drops the future of its handler at whatever await it is suspended in. One shutdown
future ends the discovery task and, separately, axum's accept loop. The MCP server is
a client: it sends three list requests at a time. The client library and the server share no
code: that a method reaches the handler it means, and that an href leads where it says, is an
agreement between two encodings and one router.

What is hard. Steps of readers, the writer and subscribers interleave freely; futures
are dropped at any await; the lock is fair, so one reader that hangs stops everybody
behind the next writer; the broadcast channel overwrites; indexes survive what they
index; a batch of discovery must be atomic although it is many changes; handshakes
stall; a program can be wrongly configured in many ways, some of which only `serve()`
notices. `PROJECT.json` lists the hazards by line, with the properties for each.

## Modules

    TopologyEvents                       entities, events, Replay, Merge
      TopologyState                      collections and indexes
        EntityRoutes                     what GET answers in a state
          Client (+ SovdUris)            the client library, and clients that follow hrefs
        Topology (+ RwLock)              guards, pending events, channel, subscribers
          Discovery                      the discovery task and handlers
      AtomicRegistry                     abstract: whole batches, reads see whole batches
      DiscoveryFeed                      abstract: items of providers merged in some order
      McpTopology                        a report of three requests
    RwLock
      DataRoutes                         handlers that await under a read guard, a writer
    SovdUris                             texts of URIs, percent-encoding, the router
    TlsListener   DataProvider   Server    on their own

`Topology` implements `AtomicRegistry`, `Discovery` implements `DiscoveryFeed`: the
`INSTANCE ... WITH` that says so is at the end of the detailed module. `McpTopology`
uses the registry of `DiscoveryFeed`, one step per batch, instead of the detailed one.
`MC*` modules give the constants their values; `*Proofs` modules hold the theorems.

Operators named "faulty variant" in a comment are wrong on purpose. Each stands before
the definition it spoils and no specification uses it; put in the place of that
definition it makes TLC find one of the properties violated, which shows that the
property can fail.

### TopologyState

State and operations are those of `TopologyState` in `topology.rs`: an `IndexMap` is a
function on the set of live ids (its insertion order is not kept: no property is about
order), an index a function from a key to the set of ids in its row. An entity is
reduced to the ids its relationships are made of. One action per `insert_*` and
`remove_*`; `apps_of_component`, `components_of_area`, `apps_of_area`,
`component_of_app`, `area_of_component`, `area_of_app` are operators of the same names.

The code leaves it to its callers to keep two disciplines; the module names them
because some of the properties need them: `KeepsRelationships` (a live entity is not
overwritten by one with another host or area) and `RemovesEmptyAreas`. `StateSpec` has
neither, `StableSpec` the first, `TidySpec` both.

That an area which is removed and added again has lost its members is intended: a test
at `topology.rs:712` asks for it. The inverse property therefore needs
`RemovesEmptyAreas`.

### EntityRoutes

The handlers of `routes/entities/` as operators on a state of the registry: they take
one read guard and do not await under it, so that their answer is a function of one
state. An answer is a status, an error code and the URIs it contains, `Get` asks for such a
URI in the same state. `DataCollection` and `DataAnswer` add what the data routes answer to a
list and to a read or write, by the outcome of the provider. Left out: names, translation ids,
schemas.

### SovdUris, Client

`SovdUris` is about text: a path is a sequence of symbols, `EncodePathSegment` and
`ClientEncode` are the two percent-encodings (the crate behind them and the matching of the
router are external), `Calls` gives the handler calls that a path leads to. `base_uri` writes
`/sovd` whatever base the router has; `NormalizedBase` is the base it has.

`Client` has one record per method of the library: the route it means, its path and its query.
`Build` is what the builder accepts, `Reaches` whether anybody listens there, `Result` what a
method returns for what the server answers. Three conditions come from the code: an id that is
empty names no path segment; a base URI that is not the versioned one (`Proper`) leads
somewhere else or nowhere, in which case a method must fail unless it reached what it named after
all; and a base URI with a query swallows what is appended to it, so that every method asks for
the base URI itself, and succeeds if that is a list and a list was asked for.

### RwLock, Topology

`RwLock` is external: what `tokio::sync::RwLock` documents, with a queue in the order of
the requests and waiting futures that can be dropped. `Topology` adds the write guard:
`Mutate` changes the registry and collects an event, `BeginDrop`, `SendEvent` (one per
event) and `ReleaseWrite` are the three parts of `Drop`, in the order that Rust gives
them: the body of `drop` first, the guard's fields after it. A removal of an id that is
not live is no step, as in the code.

The channel is external too: it keeps the last `Capacity` events (tokio rounds its
capacity up to a power of two; 64 is one). `sent` is the whole history, which the code
does not keep. A subscriber subscribes, takes a snapshot under a read guard some task
has, and applies what it receives, as the documentation of `subscribe` proposes; after
a lag it is no longer `synced` until it takes a new snapshot.

### Discovery

`run_discovery` by its awaits: `StartProvider` (each `discover()`), `MergeStreams`,
`TakeBatch`/`SkipFailure` (an item of `merged.next()`), `LockWrite` (`write().await`),
`ApplyStep` (removals, then components, apps, areas), the drop of the guard, and `Stop`,
the shutdown branch of `select!`, possible exactly where `process_events` is suspended.
A batch is held as sets: that one batch names the same id twice among its additions, and
the order in which it does, is not modelled. Handlers ask, read, leave and end.

### DataRoutes

The ten handlers take the same steps: `Enter` (the read guard), `LookupFails` or
`CallProvider`, `ProviderAnswers`; `Disconnect` drops the future while it waits for the
lock or for the provider. A registered provider is a number that is never used again,
so that a provider which was replaced is told from its successor. Status codes and
payloads are left out.

Two consequences of a guard that is held across the await are visible in the model and
are what the code does: a writer waits for every call in progress, and every request
that comes after the writer waits with it. The properties say under which conditions
this ends.

### DataProvider

All calls of the builder: `read_data`, `write_data`, `data` add a resource; `groups`, `tags`,
`translation_id` and `schema` set a field of the last one (`SetLast`), and nothing before there
is one; `build` checks the ids. Then the queries of what was built. `CategoriesOf`, `GroupsOf`
and `TagsOf` are also the default methods of the trait, which ask `list` first. Left out:
names, the order of answers.

One thing that the module shows and no document speaks of: `categories()` gives a category the
translation id of its first resource, which is meant for the resource.

### TlsListener

`accept()` by the branches of its `select!`: `SpawnHandshake` or `DropConn` (a permit or
none), `AcceptError` and `WakeUp` (the 10 ms sleep), `ReturnConn`. The task of a
handshake ends by `FailOrTimeOut`, or completes and sends when the channel has room.
`CloseListener` is axum dropping the listener at a shutdown. The permit is held until the
task ends, that is until after the send.

### Server

The gateway reads its arguments (`ReadArguments`: key, policies, URL), binds its socket
(`Bind`), puts the rest together (`Assemble`: TLS arguments, CORS, served directory, `build()`,
and the notification of readiness), then `serve()` spawns discovery (`SpawnDiscovery`), opens
(`OpenFails`, `Open`: the router that may panic, TLS, the listener), serves, drains when the
shutdown future resolves (`Drain`), returns when no request is left (`Return`), and the program
exits (`Exit`). It may `Crash` at any moment and is `Restart`ed with the same configuration;
the file of a Unix socket outlives it until somebody removes it (`CleanUp`). `Config` has one
fault at most besides what the TLS and CORS arguments may do together; the CORS checks of the
program (`CreateCorsLayer`) and those of tower-http (`CorsUsable`, external) are not the same.

The shutdown future is the default one: it installs its handlers when it is first polled
(`armed`), so a `Signal` before that kills the process. That is by `axum::serve` or by
discovery, whichever comes first; the moment between the call of `axum::serve` and that first
poll is not modelled. Discovery is reduced to its life.

A request meets the layers in the order of `Pipeline`, one action per layer, because each is
an await at which tokens may expire and the client may leave. `build_router` adds the layers
after routes and services, which puts all of them, and the fallback for unknown paths, inside.
`NoAuth`, `AllowAll`, the JWT authenticator and the policy engine are their outcomes; a policy
whose evaluation fails denies. `fresh` is a history: whether the token was valid when the
request came. A connection carries one request; one whose request has not come is closed by
the shutdown.

### McpTopology

The program connects, waits for the client to initialize, and serves calls until its input
ends or a signal comes (`ServiceStops`); then it exits, whatever is open (`WriteAndExit`).
`read_resource` (`OpenCall`, `Ask`) sends its three requests at once, each is answered under a
read guard of its own (`AnswerList`), fails (`RequestFails`), or stays open: a gateway that never
answers is possible, and there is no timeout. What becomes of the requests and of the call are steps
of their own, as `try_join!` is polled after an answer: `FailCall` ends the call with an error once
one request has failed and drops the others, `Join` answers it with the report once all have their
lists. `seen` is a history, every registry there was since the call began. There is one call at a time, because calls share nothing. rmcp and its
transport are external.

The three sections of a report need not be of one moment, although the resource calls itself a
"Snapshot of the SOVD entity hierarchy" (`mcp/src/main.rs:153`): each section is.

## Runs

| Run | Shows | Bounds |
|---|---|---|
| `StateAny` | Any sequence of calls: no empty row, `apps_of_component` never misses an app, a member reported stays reported, every href and every link can be followed (with the one exception the property states); the client library finds what it names and fails otherwise, and from version-info on everything live is found | 2 components, 1 app, 2 areas, with ids of awkward text; all texts of up to 2 of 6 symbols; 6 clients; the state space is finite |
| `StateTidy` | Under both disciplines: no index remembers what ended; contains/belongs-to and hosts/is-located-on are inverse | the same |
| `StateHostsDoc` | (violation) an app overwritten by one on another host is still reported under the old host | the same |
| `HrefBaseDoc` | (violation) with another base than `/sovd` the hrefs do not include it | the same, base `/api/sovd` |
| `DataFilterDoc` | (violation) a data list with any filter is answered 400 | the same |
| `TopologyEvents` | Events tell the registry; nothing is removed that was not added; what a subscriber has still to hear explains its difference from the registry, from any snapshot, and after a lag once it takes a new one; nothing changes under a read guard; `Topology` implements `AtomicRegistry` | 2 tasks, 1 subscriber, 4 events, a channel of 2 |
| `Discovery` | Batches are applied in the order of their provider; one that was given the lock is applied whole and told before the lock is free, whenever a shutdown comes; every item is taken, every batch finished, a shutdown ends the task | 2 providers of 2 items, 2 batches, 1 handler |
| `DataRoutes` | No call on a provider that was removed; requests end, the writer gets its turn, a graceful shutdown ends; a hung provider holds up only its own requests when nobody writes | 3 handlers, a writer, 2 entities, one of which may hang, 2 providers ever |
| `TlsListener` | Slots are conserved and come back; completed handshakes are served; the backlog empties | 4 connections, 2 slots |
| `McpSections` | Each section of a report was real at some moment of the call; a call ends with its first failed request, though the others are never answered, or with its last answer; a client that goes away takes the program with it | 2 components, 1 app, 1 area, 3 batches, 1 call at a time |
| `Server` | Routes, services and unknown paths answer only whom both layers let in, 401 and 403 go to the right ones, while tokens expire; a request that was let in is not cut off; a start that fails has its reason; a signal that is heard ends the program on every kind of listener | 2 requests, 1 genuine token and none, 3 paths, 3 of the 4 kinds of sockets, all faults and TLS arguments, 3 CORS arguments |
| `DataProvider` | An id names one resource, with one answer and one schema, in a provider that was built; categories and groups lead to its data | 3 resources, 2 categories, 1 group, 1 tag, 1 translation id |

Why the bounds are enough. Two components and two areas let an entity move from one to
another and meet a stranger in the row; one app suffices because rows are sets and an
operation touches one id of one row (the proofs do without the bound). Four events and a
channel of two give a batch longer than the channel, a lag in mid-batch, and an entity
that is added, removed and added again. Two tasks let a reader and a writer meet in any
order. In `Discovery` the batches remove and add what may or may not be there, and one of
them removes and adds the same id; `MaxEvents` is never reached. In `DataRoutes` two
handlers and a writer are the smallest queue in which one handler waits behind the writer
behind the other; the third handler is one that can go on while the first is hung, or that joins
the queue meanwhile. Four connections and two slots fill the semaphore and the channel at
once with one more behind each. Three resources put one of another category before and
after one of the group's. In `Server` requests meet only in what the server waits for, for
which two are enough, and the token is refused by the policy on one path and allowed on another;
a socket from systemd is bound like an address. The two CORS arguments are the one that
`create_cors_layer` refuses and the one that it lets pass and tower-http does not. In `StateAny` the
ids are the texts that a path cannot hold as they are: one with a slash, one that looks like an
escape, the name of a route, one with a question mark, the empty one; the clients have a base URI
that is right, over TCP and over a Unix socket, or wrong in one of four ways.

`CHECK_DEADLOCK FALSE` in two runs, where the system really stops: `TlsListener` after the
listener is closed and its tasks have ended, `DataProvider` after `build()`. The other runs check
deadlock.

### Fairness

- `Discovery`: the runtime polls a task that can go on (WF). `select_all` polls its streams
  in turn, so that an item which is ready is not passed over for ever (SF on taking it);
  `select!` polls its branches in random order at each wake-up, and tokio's cooperative
  budget makes a task that always has work yield, so that the shutdown branch is not passed
  over for ever (SF on `Stop`). `discover()` returns and handlers end: assumptions about
  external code. Without the first, a provider that does not return would hold up all
  others and the shutdown; this is listed as a hazard.
- `DataRoutes`: tasks are polled, the writer drops its guard, providers that are not hung
  answer. That the clients of a hung provider give up (`HungClientsLeave`) and that nobody
  writes any more (`WritingEnds`) are premises of the properties that need them, not part of
  the specification.
- `TlsListener`: `select!` is random (SF on `ReturnConn`); the timer fires (WF on
  `FailOrTimeOut`); the channel wakes senders in order, so a sender is not passed over for
  ever (SF on `SendConn`). That accept errors are transient is a premise of
  `BacklogIsEmptied` only.
- `McpSections`: a call that can end is polled, and the program notices that its input was closed (WF).
  The gateway is given no fairness, as it may never answer: that a call ends is said only of one with
  a failed request or with all of its answers (`OutcomeEndsCall`). None of this needs a signal, and a stopping program whose input stays
  open may stay: the runtime waits for the thread that reads it.
- `Server`: the program and each layer go on, and hyper closes an idle connection when it is
  told to (WF). A handler ends or its client leaves, which `EveryRequestEnds` of `DataRoutes`
  says under its own premise: the code sets no limit to the wait at a shutdown. Discovery is
  given no fairness; `ShutdownEndsServer` does not depend on it.

### What the violations show

- `StateHostsDoc`: `insert_app` overwrites without unindexing, against "Queries all apps
  hosted on a specific component" (`topology.rs:164`). Add app `a` on `c1`, add `a` on `c2`:
  `/components/c1/hosts` reports `a`.
- `HrefBaseDoc`: `base_uri()` writes `http://{host}/sovd` (`routes/mod.rs:59`) whatever base URI the
  routes are nested under, against "URI of the Entity including `base_uri`"
  (`models/src/discovery.rs:23`). With `--url http://host:7690/api/sovd` every href answers 404.
- `DataFilterDoc`: `component_data_list` is documented as "optionally filtered by category, group,
  or tags" (`routes/data.rs:137`), but axum's `Query` reads no list, so that any such filter is a
  400; the entity lists use the `Query` of axum_extra, which does.

Three more differences have no run of their own: `app_is_located_on` reads the query and ignores
its tags (`models/src/discovery.rs:39`: "Filter entities by tags (OR logic)."), the MCP report is no
snapshot (a batch that brings an area with its component, between the answer for areas and the one for
components, gives a report of the component without the area), and CORS for any method with credentials
passes the checks of the gateway and panics in `serve()`, after readiness was notified (a reason that
`FailuresAreExplained` allows).

Two comments are out of date without consequences: `topology.rs:389` mentions a
`flush_events` that does not exist, and `docs/architecture.md:154` an earlier structure.

## Proofs

All theorems hold for every set of ids, tasks and subscribers, every capacity and every
bound. They assume only the named assumptions of the modules: a value that stands for none is none
of the others, capacities are positive numbers, bounds are numbers, batches are batches. Each type
invariant is proved rather than listed in a run, where another property of the same run fails first
on a mistake of type, except for `StateTypeOK`, `TypeOK` and `DataTypeOK`, which say more than types,
and `ProviderTypeOK`, which is a part of `IdsNameOneResource`.

`TopologyStateProofs`. `StateTypeOK` is inductive. `HostRowsComplete` is inductive with
it: an app is put into its host's row whenever it is put into the collection and taken out
of it only with its entry. `RowsSound` is inductive under `KeepsRelationships`. For the
inverse of the area relationships soundness is not enough: `AreaRowsComplete` (a live
entity is in the row of the area it names, live or not) is the strengthening, and it needs
`RemovesEmptyAreas`. `MembersStay` follows from the types: no operation but the removal of
an entity takes its id out of a row of an area that stays.

`RwLockProofs`. `LockTypeOK` (a task waits only behind tasks that wait) and `Exclusion`. Then the
queue, which is what the absence of deadlock rests on: those who wait are in one order
(`QueueInOrder`), nobody gets in past one that asked before it (`FirstComeFirstServed`), and somebody
is first (`NeverIdle`). The last needs that finitely many tasks wait, which is part of the invariant
(`QueueInv`) because one asks at a time; the set of tasks may be infinite. Among finitely many, one has
the smallest set of tasks ahead of it, by the well-foundedness of inclusion. Whether a task gets its
guard is said by `MayEnter`, the guards of `GrantRead` and `GrantWrite` as a predicate, since ENABLED is beyond the prover.
`TopologyUsesLock`, `DataUsesLock` and, through `Topology`, `DiscoveryIsTopology` say that what is
built around the lock uses it as it is, so all of this holds there.

`TopologyProofs`. Lemmas on `Replay`, the live entities a log tells: what one more
event does, that hearing an event again changes nothing. `Replay` is defined by the last
event about each entity, not by recursion, which is what makes it provable. A step of `Topology`
is a step of the lock or leaves it, and a step of
`TopologyState` or leaves it, so the theorems of the parts carry over. `EventsTellTheRegistry`
is inductive with the types: each change adds the event that tells it, and sending only
moves events within the log. `RemovedWasAdded` follows with it: an entity that is removed
was live, so by what the log tells its last event was Added. `SyncedReplicaConverges` is
inductive with the cursors (`CursorsInLog`): a snapshot is the registry while nothing is
pending, because its reader excludes the writer, and to receive is to move one event from
what is still to hear into the replica. `RefinementCorrect` maps the commit of a batch to
the beginning of the drop of its guard: `Exclusion` gives that no reader is there, and
`EventsTellTheRegistry` that what readers see between drops is what the committed log tells.

`ServerProofs`. `AdmissionIsEnforced` is not inductive: the strengthening `AdmissionInv` says what
the layers still ahead of a request imply about those behind it (past authentication it has the
identity of a token that was fresh, past authorization the policy allows its path) and that a token
which was not valid when its request came never is again. Each step moves one request or none
(`OneRequestMoves`). `NobodyIsCutOff` is inductive with the types, which say that a server that
serves hears signals. Assumed of the constants: genuine tokens are tokens and not the missing one,
the policy speaks of tokens and paths, no path is both a route and a service's.
`FailuresAreExplained` needs what every stage says of the configuration (`Assembled`: what is past
`Assemble` passed its checks, whoever once served passed them all and opens).

`DrainCorrect` is what `ShutdownEndsServer` rests on once the server drains: a request that is in always
has a layer ahead of it, an idle connection can be closed, no connection is new, and whatever changes a
request brings it closer to its answer (`Distance`, at most five steps).

The same module proves `SlotsConserved` of the TLS listener. It is about a cardinality: each step
moves at most one connection into or out of the tasks that hold a slot, with the permit.
`TurnedAwayWhenFull` follows from it: no permit means that MaxPending tasks hold one. `NoneIsForgotten`
needs, besides, that the channel and the states of the connections tell the same; to each step of
`SendConn`, `ReturnConn` and `CloseListener` belongs the change of both.

`ClientProofs`, on the routes. The routes are functions of a state, so the theorems are about every
state that satisfies `StateTypeOK`, which holds in all of them: each collection keeps only live
entities (`HrefsHold`), each link leads to a live entity or to a collection of the entity itself
(`LinksHold`).

`ClientProofs`, on texts. `ClientFindsWhatItNames` and `EverythingCanBeFound` are about functions
of the constants and of one state, so there is no invariant to strengthen; the work is in the
texts. The argument in order:

1. `FlattenAppend`: the community operator that joins sequences, which is a `CHOOSE` over recursive
   functions, joins a part more at the end. The induction it takes is `NumbersByStep`.
2. `EncodedTextsReadBack`: an encoded text has no special character left, does not end inside an
   escape, and decodes to the text it was made of. By induction over its length: what is written for
   one more symbol is decoded by itself, because what stands before it is complete (`DecodeAhead`).
   It needs of the set of characters to encode only that `%`, `/` and `?` are in it: the two sets of the
   server and the client are different.
3. `PathCalls` both ways. `EntityIsRouted`, `RouteIsRouted`, `ItemIsRouted`: a path with one segment
   per parameter has exactly the one call. `V1Shape`: whatever leads to a call has that shape.
4. `MethodArrives`: the path of a method, behind a versioned base, is routed to the call it names.
5. `SuccessIsWhatWasNamed`, for any base URI without a query: the path of the request ends with the
   path of the method; a success came from a route with a body of the same type; of such routes only
   the same one, for the same kind and with the same segments, has a path that ends so
   (`RoutedForms`, `OneRouteIn`, `OneItemIn`); and equal segments are equal ids.
6. `FoundIs`: with what was said of the collections and hrefs, that a client finds what is live.

`FoundCorrect` assumes `NormalizedBase = <<"/", "sovd">>`, the default. That is not a convenience:
the hrefs have that base whatever the server has, which the run `HrefBaseDoc` shows to be a
disagreement with the documentation. `ClientCorrect` holds for every base.

`DiscoveryProofs`. A step of `Discovery` is a step of `Topology` or leaves it (`DiscoveryIsTopology`),
so that its theorems hold of discovery among handlers; `ImplementsAtomicRegistry` with them.
`DiscoveryTypeOK` says that a batch is in hand exactly while the task waits for the guard or holds it,
and that nobody else asks to write. `DiscoveryIsFeed` maps the grant of the write guard
to the application of the batch: while the guard is held the abstract registry is the live entities
merged with what is left of the batch, which each change leaves as it is (`ApplyStepMerges`). The
strengthening it needs is `DropsAfterLast`: the guard is dropped only when nothing of the batch is left. `GrantedBatchIsWhole` has the same two
grounds: no step under the guard changes what the batch comes to, and a shutdown cannot take the guard
away, because the task is suspended only where it waits.
`BatchWaitsCorrect` says who waits for whom: discovery is the only one that writes (`FeedOK`), so by the
queue of the lock a batch waits for a handler that reads or can read now, and handlers wait for a batch.

`DataProofs`. `CallsAreOnRegisteredProviders` is inductive with the types: the writer is the
only one who changes the registry, and `Exclusion` keeps it out while a call is in progress.
`OnlyHungProvidersBlock` is proved of the queue of the lock with the roles of its tasks (`RolesOK`):
whoever is first can enter, or the guard that is out belongs to a writer, who drops it, or to handlers,
each of which looks up its entity, answers, or waits for its provider. `ReadersPassHungProviders` is
the case without a writer: a guard to read excludes no reader.
`IdsNameOneResource` needs that what was built has no duplicate (`IdsAreDistinct`), which holds
because nothing is added after `build()`. `GroupsLeadToData` is about every list of resources, in
whatever order the builder was called: the translation id that a category reports is that of the
first resource of the category, and that there is a first one is `LeastNumber`.

`McpProofs`. `EachSectionWasReal` is not inductive: the strengthening `CallOK` says that while a call
is open the registry is among those it has seen, so that a list is of one of them whenever it is
given, and that who reports has every list. A batch changes the registry for all open calls at once, an answer changes one call.

Induction. The induction theorems of the library take an operator as a parameter, which the provers
cannot instantiate. `LeastNumber` says the same of sets: a set of numbers has a least one, by the
well-foundedness of the inclusion of finite sets, which the library states without operators;
`NumbersByStep` follows from it.

Assumed of the constants, besides what is said above: ids are sequences of strings, the base of a
server has no query, the base URI of a client begins with something that is not a "?" (its host), a
batch adds entities.

What stays with TLC: every liveness property, since fairness and ENABLED are beyond the prover. Of the
arguments behind them the parts that are invariants or action properties are theorems:
`NeverIdleCorrect`, `FirstComeFirstServedCorrect`, `OnlyHungProvidersBlockCorrect`,
`ReadersPassCorrect`, `BatchWaitsCorrect`, `DrainCorrect`, `NoneIsForgottenCorrect` and
`TurnedAwayCorrect`. Their formulas are in the modules of the components. They are no runs of their own: TLC checked them
on the instances of `DataRoutes`, `Discovery`, `Server` and `TlsListener` before they were proved, and
a proof needs no instance.

## Not modelled

The parts marked so in the table, with the reasons in `PROJECT.json`; within modelled parts
what the sections above leave out; the values of time (a timer may fire at any moment); the
memory of tasks and channels; panics (but for a router that cannot be built, which is one of
the ways `OpenFails`).

## Plan

Done: registry, guards and events, discovery, routes, data routes, data provider, TLS listener,
server, URIs and client library, MCP server, with proofs of their safety.

What could come next: `Server` composed with `Discovery` and `DataRoutes` on one registry; a batch of
discovery as sequences, with an id twice in it; the parts of the other liveness arguments that are
invariants (streams of `Discovery`, calls of `McpTopology`).
