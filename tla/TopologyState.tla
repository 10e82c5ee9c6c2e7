---------------------------- MODULE TopologyState ----------------------------
(***************************************************************************)
(* The data structure behind opensovd-core's Topology: three collections   *)
(* of entities and three relationship indexes, changed by six operations.  *)
(*                                                                         *)
(* An entity is kept as the attributes its relationships are made of.  A   *)
(* component is the area it names (or NoArea); an app is the component it  *)
(* is located on and the area it names; an area is its id.  Names, tags,   *)
(* metadata and the data provider are left out: no operation of this file  *)
(* looks at them.                                                          *)
(*                                                                         *)
(* A collection is a function whose domain is the set of live ids, which   *)
(* is what an IndexMap is once its insertion order is forgotten; an index  *)
(* is a function from a key to its row, a set of ids.                      *)
(***************************************************************************)
EXTENDS TopologyEvents

CONSTANT NoArea  \* the area_id of an entity that names no area

ASSUME NoAreaAssumption == NoArea \notin AreaIds

VARIABLES components,        \* live component id -> area it names
          apps,              \* live app id -> [host, area]
          areas,             \* live area ids
          appsByComponent,   \* component id -> ids of the apps hosted on it
          componentsByArea,  \* area id -> ids of the components in it
          appsByArea         \* area id -> ids of the apps in it

stateVars == <<components, apps, areas,
               appsByComponent, componentsByArea, appsByArea>>

AreaId == AreaIds \cup {NoArea}
App    == [host : ComponentIds, area : AreaId]

\* The live entities of all three kinds.
Live == {ComponentRef(c) : c \in DOMAIN components}
        \cup {AppRef(a) : a \in DOMAIN apps} \cup {AreaRef(r) : r \in areas}

(***************************************************************************)
(* Maps and index rows.                                                    *)
(***************************************************************************)

Put(f, k, v) == [x \in DOMAIN f \cup {k} |-> IF x = k THEN v ELSE f[x]]

Drop(f, k) == [x \in DOMAIN f \ {k} |-> f[x]]

\* A missing row reads as an empty one.
Row(index, k) == IF k \in DOMAIN index THEN index[k] ELSE {}

\* entry(k).or_default().insert(id)
AddToRow(index, k, id) == Put(index, k, Row(index, k) \cup {id})

\* Faulty variant of RemoveFromRow: the row stays when its last id goes.
KeepEmptyRow(index, k, id) == Put(index, k, Row(index, k) \ {id})

\* shift_remove(id) on the row of k, and the row goes with its last id.
RemoveFromRow(index, k, id) ==
    IF Row(index, k) \subseteq {id}
    THEN Drop(index, k)
    ELSE Put(index, k, index[k] \ {id})

IndexUnderArea(index, area, id) ==
    IF area = NoArea THEN index ELSE AddToRow(index, area, id)

UnindexUnderArea(index, area, id) ==
    IF area = NoArea THEN index ELSE RemoveFromRow(index, area, id)

(***************************************************************************)
(* The six mutations.  An insertion neither looks for nor unindexes an     *)
(* entry it overwrites; a removal unindexes the attributes of the entry it *)
(* removes; removing an area throws its rows away and leaves its members.  *)
(* A removal of an id that is not live changes nothing.                    *)
(***************************************************************************)

StateInit ==
    /\ components = [c \in {} |-> NoArea]
    /\ apps = [a \in {} |-> NoArea]
    /\ areas = {}
    /\ appsByComponent = [c \in {} |-> {}]
    /\ componentsByArea = [r \in {} |-> {}]
    /\ appsByArea = [r \in {} |-> {}]

\* Faulty variant of InsertComponent: only an area that is live gets a row.
InsertComponentUnderLiveArea(c, area) ==
    /\ componentsByArea' = IndexUnderArea(componentsByArea,
                                          IF area \in areas THEN area ELSE NoArea, c)
    /\ components' = Put(components, c, area)
    /\ UNCHANGED <<apps, areas, appsByComponent, appsByArea>>

InsertComponent(c, area) ==
    /\ componentsByArea' = IndexUnderArea(componentsByArea, area, c)
    /\ components' = Put(components, c, area)
    /\ UNCHANGED <<apps, areas, appsByComponent, appsByArea>>

\* Faulty variant of RemoveComponent: it throws away the row of its apps, as
\* RemoveArea does with those of its members.
RemoveComponentAndHostRow(c) ==
    /\ c \in DOMAIN components
    /\ components' = Drop(components, c)
    /\ componentsByArea' = UnindexUnderArea(componentsByArea, components[c], c)
    /\ appsByComponent' = Drop(appsByComponent, c)
    /\ UNCHANGED <<apps, areas, appsByArea>>

RemoveComponent(c) ==
    /\ c \in DOMAIN components
    /\ components' = Drop(components, c)
    /\ componentsByArea' = UnindexUnderArea(componentsByArea, components[c], c)
    /\ UNCHANGED <<apps, areas, appsByComponent, appsByArea>>

\* Faulty variant of InsertApp: it indexes the app only if the id is new.
InsertAppIndexNew(a, app) ==
    /\ appsByComponent' = IF a \in DOMAIN apps THEN appsByComponent
                          ELSE AddToRow(appsByComponent, app.host, a)
    /\ appsByArea' = IF a \in DOMAIN apps THEN appsByArea
                     ELSE IndexUnderArea(appsByArea, app.area, a)
    /\ apps' = Put(apps, a, app)
    /\ UNCHANGED <<components, areas, componentsByArea>>

InsertApp(a, app) ==
    /\ appsByComponent' = AddToRow(appsByComponent, app.host, a)
    /\ appsByArea' = IndexUnderArea(appsByArea, app.area, a)
    /\ apps' = Put(apps, a, app)
    /\ UNCHANGED <<components, areas, componentsByArea>>

\* Faulty variant of RemoveApp: it forgets the row of the area.
RemoveAppFromHostOnly(a) ==
    /\ a \in DOMAIN apps
    /\ apps' = Drop(apps, a)
    /\ appsByComponent' = RemoveFromRow(appsByComponent, apps[a].host, a)
    /\ UNCHANGED <<components, areas, componentsByArea, appsByArea>>

RemoveApp(a) ==
    /\ a \in DOMAIN apps
    /\ apps' = Drop(apps, a)
    /\ appsByComponent' = RemoveFromRow(appsByComponent, apps[a].host, a)
    /\ appsByArea' = UnindexUnderArea(appsByArea, apps[a].area, a)
    /\ UNCHANGED <<components, areas, componentsByArea>>

\* Faulty variant of InsertArea: an area that is added again starts empty.
InsertAreaAfresh(r) ==
    /\ areas' = areas \cup {r}
    /\ componentsByArea' = Drop(componentsByArea, r)
    /\ appsByArea' = Drop(appsByArea, r)
    /\ UNCHANGED <<components, apps, appsByComponent>>

InsertArea(r) ==
    /\ areas' = areas \cup {r}
    /\ UNCHANGED <<components, apps, appsByComponent, componentsByArea, appsByArea>>

RemoveArea(r) ==
    /\ r \in areas
    /\ areas' = areas \ {r}
    /\ componentsByArea' = Drop(componentsByArea, r)
    /\ appsByArea' = Drop(appsByArea, r)
    /\ UNCHANGED <<components, apps, appsByComponent>>

StateNext ==
    \/ \E c \in ComponentIds : (\E area \in AreaId : InsertComponent(c, area))
                               \/ RemoveComponent(c)
    \/ \E a \in AppIds : (\E app \in App : InsertApp(a, app)) \/ RemoveApp(a)
    \/ \E r \in AreaIds : InsertArea(r) \/ RemoveArea(r)

StateSpec == StateInit /\ [][StateNext]_stateVars

(***************************************************************************)
(* The relationship queries.  A row is filtered by the live collection, so *)
(* an id that is in a row but no longer live is not reported.              *)
(***************************************************************************)

AppsOfComponent(c)  == Row(appsByComponent, c) \cap DOMAIN apps
ComponentsOfArea(r) == Row(componentsByArea, r) \cap DOMAIN components
AppsOfArea(r)       == Row(appsByArea, r) \cap DOMAIN apps

\* The query names the entity or nothing: a set of at most one id.
ComponentOfApp(a)  == {apps[a].host} \cap DOMAIN components
AreaOfComponent(c) == {components[c]} \cap areas
AreaOfApp(a)       == {apps[a].area} \cap areas

(***************************************************************************)
(* Two disciplines a caller may keep.  The code enforces neither, and each *)
(* is what some of the index properties need.                              *)
(***************************************************************************)

\* An entity that is live and stays live keeps its relationships: nothing is
\* overwritten by an entry with another host or area.
KeepsRelationships ==
    /\ \A c \in DOMAIN components \cap DOMAIN components' :
          components'[c] = components[c]
    /\ \A a \in DOMAIN apps \cap DOMAIN apps' : apps'[a] = apps[a]

\* An area is removed only after the last entity that names it.
RemovesEmptyAreas ==
    \A r \in areas \ areas' :
        /\ \A c \in DOMAIN components : components[c] # r
        /\ \A a \in DOMAIN apps : apps[a].area # r

StableNext == StateNext /\ KeepsRelationships
TidyNext   == StableNext /\ RemovesEmptyAreas

StableSpec == StateInit /\ [][StableNext]_stateVars
TidySpec   == StateInit /\ [][TidyNext]_stateVars

-----------------------------------------------------------------------------
(***************************************************************************)
(* Properties.                                                             *)
(***************************************************************************)

\* Type invariant.  No row is ever empty: the code drops a row with its last
\* id, so a long-lived registry keeps no row for a relationship that ended.
IsIndex(index, Keys, Ids) ==
    /\ DOMAIN index \subseteq Keys
    /\ index \in [DOMAIN index -> (SUBSET Ids) \ {{}}]

StateTypeOK ==
    /\ DOMAIN components \subseteq ComponentIds
    /\ components \in [DOMAIN components -> AreaId]
    /\ DOMAIN apps \subseteq AppIds
    /\ apps \in [DOMAIN apps -> App]
    /\ areas \subseteq AreaIds
    /\ IsIndex(appsByComponent, ComponentIds, AppIds)
    /\ IsIndex(componentsByArea, AreaIds, ComponentIds)
    /\ IsIndex(appsByArea, AreaIds, AppIds)

\* Whatever the callers do, in whatever order they add, overwrite and remove
\* apps, components and areas, a live app is in the row of the component it is
\* located on: apps_of_component never misses an app.
HostRowsComplete ==
    \A a \in DOMAIN apps : a \in AppsOfComponent(apps[a].host)

\* Under KeepsRelationships no index remembers a relationship that ended: every
\* id in a row is live and names the key of the row.  Removing an area, in use
\* or not, does not break it.
RowsSound ==
    /\ \A h \in DOMAIN appsByComponent : \A a \in appsByComponent[h] :
          a \in DOMAIN apps /\ apps[a].host = h
    /\ \A r \in DOMAIN componentsByArea : \A c \in componentsByArea[r] :
          c \in DOMAIN components /\ components[c] = r
    /\ \A r \in DOMAIN appsByArea : \A a \in appsByArea[r] :
          a \in DOMAIN apps /\ apps[a].area = r

\* Under both disciplines "contains" and "belongs-to", "hosts" and
\* "is-located-on" are each other's inverse for every live area and component.
ContainsInvertsBelongsTo ==
    \A r \in areas :
        /\ \A c \in DOMAIN components :
              c \in ComponentsOfArea(r) <=> AreaOfComponent(c) = {r}
        /\ \A a \in DOMAIN apps : a \in AppsOfArea(r) <=> AreaOfApp(a) = {r}

HostsInvertsLocatedOn ==
    \A c \in DOMAIN components : \A a \in DOMAIN apps :
        a \in AppsOfComponent(c) <=> ComponentOfApp(a) = {c}

\* Whatever the callers do, an entity that /areas/{id}/contains reports is
\* reported for as long as it goes on naming that area and the area stays:
\* re-adding the area, or any change of another entity, never loses it.
MembersStay ==
    [][\A r \in areas \cap areas' :
          /\ \A c \in ComponentsOfArea(r) :
                c \in DOMAIN components' /\ components'[c] = r
                    => c \in ComponentsOfArea(r)'
          /\ \A a \in AppsOfArea(r) :
                a \in DOMAIN apps' /\ apps'[a].area = r => a \in AppsOfArea(r)'
      ]_stateVars

\* What the documentation of the query says: "Queries all apps hosted on a
\* specific component" (topology.rs).  Overwriting a live app with one on another
\* host refutes it.
AppsOfComponentAreHosted ==
    \A c \in DOMAIN components : \A a \in AppsOfComponent(c) : apps[a].host = c

=============================================================================
