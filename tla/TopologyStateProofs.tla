------------------------ MODULE TopologyStateProofs ------------------------
(***************************************************************************)
(* Theorems about TopologyState, for every set of component, app and area  *)
(* ids: the type invariant and the completeness of the host rows hold      *)
(* whatever the callers do; the rows are sound for callers that keep       *)
(* relationships, and the relationships are each other's inverse for those *)
(* that also remove only empty areas.                                      *)
(***************************************************************************)
EXTENDS TopologyState, TLAPS

(***************************************************************************)
(* Maps.                                                                   *)
(***************************************************************************)

\* What insert and shift_remove do to an IndexMap.
LEMMA PutIsMap ==
    ASSUME NEW Keys, NEW Values, NEW f, NEW k \in Keys, NEW v \in Values,
           DOMAIN f \subseteq Keys, f \in [DOMAIN f -> Values]
    PROVE  /\ DOMAIN Put(f, k, v) = DOMAIN f \cup {k}
           /\ DOMAIN Put(f, k, v) \subseteq Keys
           /\ Put(f, k, v) \in [DOMAIN Put(f, k, v) -> Values]
           /\ \A x \in DOMAIN f : x # k => Put(f, k, v)[x] = f[x]
           /\ Put(f, k, v)[k] = v
BY DEF Put

\* ... and what shift_remove leaves.
LEMMA DropIsMap ==
    ASSUME NEW Keys, NEW Values, NEW f, NEW k,
           DOMAIN f \subseteq Keys, f \in [DOMAIN f -> Values]
    PROVE  /\ DOMAIN Drop(f, k) = DOMAIN f \ {k}
           /\ DOMAIN Drop(f, k) \subseteq Keys
           /\ Drop(f, k) \in [DOMAIN Drop(f, k) -> Values]
           /\ \A x \in DOMAIN f \ {k} : Drop(f, k)[x] = f[x]
BY DEF Drop

(***************************************************************************)
(* Index rows: entry().or_default().insert() adds one id to one row and    *)
(* touches no other; taking an id out leaves every other id in its row and *)
(* keeps no empty row.                                                     *)
(***************************************************************************)

\* An index stays one when a row that is not empty is put into it.
LEMMA PutIsIndex ==
    ASSUME NEW Keys, NEW Ids, NEW index, IsIndex(index, Keys, Ids),
           NEW k \in Keys, NEW row \in (SUBSET Ids) \ {{}}
    PROVE  IsIndex(Put(index, k, row), Keys, Ids)
<1> DEFINE Rows == (SUBSET Ids) \ {{}}
<1> SUFFICES /\ DOMAIN Put(index, k, row) \subseteq Keys
             /\ Put(index, k, row) \in [DOMAIN Put(index, k, row) -> Rows]
  BY DEF IsIndex
<1>1. row \in Rows /\ DOMAIN index \subseteq Keys /\ index \in [DOMAIN index -> Rows]
  BY DEF IsIndex
<1> HIDE DEF Rows
<1>2. QED
  BY <1>1, PutIsMap

\* An index stays one without one of its rows.
LEMMA DropIsIndex ==
    ASSUME NEW Keys, NEW Ids, NEW index, IsIndex(index, Keys, Ids), NEW k
    PROVE  IsIndex(Drop(index, k), Keys, Ids)
BY DropIsMap DEF IsIndex

\* An index stays one when an id is added to a row.
LEMMA AddToRowIsIndex ==
    ASSUME NEW Keys, NEW Ids, NEW index, IsIndex(index, Keys, Ids),
           NEW k \in Keys, NEW id \in Ids
    PROVE  IsIndex(AddToRow(index, k, id), Keys, Ids)
<1>1. Row(index, k) \cup {id} \in (SUBSET Ids) \ {{}}
  BY DEF IsIndex, Row
<1>2. QED
  BY <1>1, PutIsIndex DEF AddToRow

\* AddToRow adds one id to one row.
LEMMA AddToRowRows ==
    ASSUME NEW index, NEW k, NEW id
    PROVE  \A x, y : y \in Row(AddToRow(index, k, id), x)
                       <=> y \in Row(index, x) \/ (x = k /\ y = id)
BY DEF AddToRow, Put, Row

\* An index stays one when an id is taken out of a row.
LEMMA RemoveFromRowIsIndex ==
    ASSUME NEW Keys, NEW Ids, NEW index, IsIndex(index, Keys, Ids), NEW k, NEW id
    PROVE  IsIndex(RemoveFromRow(index, k, id), Keys, Ids)
<1>1. CASE Row(index, k) \subseteq {id}
  BY <1>1, DropIsIndex DEF RemoveFromRow
<1>2. CASE ~(Row(index, k) \subseteq {id})
  <2>1. k \in DOMAIN index /\ index[k] \ {id} # {}
    BY <1>2 DEF Row
  <2>2. k \in Keys /\ index[k] \ {id} \in (SUBSET Ids) \ {{}}
    BY <2>1 DEF IsIndex
  <2>3. QED
    BY <1>2, <2>2, PutIsIndex DEF RemoveFromRow
<1>3. QED
  BY <1>1, <1>2

\* RemoveFromRow takes one id out of one row.
LEMMA RemoveFromRowRows ==
    ASSUME NEW index, NEW k, NEW id
    PROVE  \A x, y : y \in Row(RemoveFromRow(index, k, id), x)
                       <=> y \in Row(index, x) /\ ~(x = k /\ y = id)
BY DEF RemoveFromRow, Put, Drop, Row

\* Both hold for the indexes of the areas, where there may be no area.
LEMMA IndexUnderAreaIsIndex ==
    ASSUME NEW Ids, NEW index, IsIndex(index, AreaIds, Ids),
           NEW area \in AreaId, NEW id \in Ids
    PROVE  /\ IsIndex(IndexUnderArea(index, area, id), AreaIds, Ids)
           /\ IsIndex(UnindexUnderArea(index, area, id), AreaIds, Ids)
BY AddToRowIsIndex, RemoveFromRowIsIndex DEF IndexUnderArea, UnindexUnderArea, AreaId

\* IndexUnderArea adds one id to the row of the area, if there is one.
LEMMA IndexUnderAreaRows ==
    ASSUME NEW index, NEW area \in AreaId, NEW id
    PROVE  \A r \in AreaIds : \A y :
              y \in Row(IndexUnderArea(index, area, id), r)
                <=> y \in Row(index, r) \/ (r = area /\ y = id)
BY NoAreaAssumption, AddToRowRows DEF IndexUnderArea, AreaId

\* UnindexUnderArea takes it out again.
LEMMA UnindexUnderAreaRows ==
    ASSUME NEW index, NEW area \in AreaId, NEW id
    PROVE  \A r \in AreaIds : \A y :
              y \in Row(UnindexUnderArea(index, area, id), r)
                <=> y \in Row(index, r) /\ ~(r = area /\ y = id)
BY NoAreaAssumption, RemoveFromRowRows DEF UnindexUnderArea, AreaId

\* Drop empties one row.
LEMMA DropRows ==
    ASSUME NEW index, NEW k
    PROVE  \A x, y : y \in Row(Drop(index, k), x) <=> y \in Row(index, x) /\ x # k
BY DEF Drop, Row

-----------------------------------------------------------------------------
(***************************************************************************)
(* The type invariant.                                                     *)
(***************************************************************************)

\* The collections and the indexes of a TopologyState hold ids of the right
\* kinds, and no index keeps an empty row, whatever is called in whatever order.
THEOREM StateTypeInit == StateInit => StateTypeOK
BY DEF StateInit, StateTypeOK, IsIndex

\* The mutations keep the types, one by one.
LEMMA InsertComponentType ==
    ASSUME StateTypeOK, NEW c \in ComponentIds, NEW area \in AreaId,
           InsertComponent(c, area)
    PROVE  StateTypeOK'
<1>1. /\ DOMAIN components' \subseteq ComponentIds
      /\ components' \in [DOMAIN components' -> AreaId]
  BY PutIsMap DEF StateTypeOK, InsertComponent
<1>2. IsIndex(componentsByArea', AreaIds, ComponentIds)
  BY IndexUnderAreaIsIndex DEF StateTypeOK, InsertComponent
<1>3. QED
  BY <1>1, <1>2 DEF StateTypeOK, InsertComponent

\* A component is removed from the collection and its area's row.
LEMMA RemoveComponentType ==
    ASSUME StateTypeOK, NEW c \in ComponentIds, RemoveComponent(c)
    PROVE  StateTypeOK'
<1>1. /\ DOMAIN components' \subseteq ComponentIds
      /\ components' \in [DOMAIN components' -> AreaId]
  BY DropIsMap DEF StateTypeOK, RemoveComponent
<1>2. components[c] \in AreaId
  BY DEF StateTypeOK, RemoveComponent
<1>3. IsIndex(componentsByArea', AreaIds, ComponentIds)
  BY <1>2, IndexUnderAreaIsIndex DEF StateTypeOK, RemoveComponent
<1>4. QED
  BY <1>1, <1>3 DEF StateTypeOK, RemoveComponent

\* An app is put into the collection and both rows.
LEMMA InsertAppType ==
    ASSUME StateTypeOK, NEW a \in AppIds, NEW app \in App, InsertApp(a, app)
    PROVE  StateTypeOK'
<1>1. /\ DOMAIN apps' \subseteq AppIds
      /\ apps' \in [DOMAIN apps' -> App]
  BY PutIsMap DEF StateTypeOK, InsertApp
<1>2. app.host \in ComponentIds /\ app.area \in AreaId
  BY DEF App
<1>3. IsIndex(appsByComponent', ComponentIds, AppIds)
  BY <1>2, AddToRowIsIndex DEF StateTypeOK, InsertApp
<1>4. IsIndex(appsByArea', AreaIds, AppIds)
  BY <1>2, IndexUnderAreaIsIndex DEF StateTypeOK, InsertApp
<1>5. QED
  BY <1>1, <1>3, <1>4 DEF StateTypeOK, InsertApp

\* An app is removed from the collection and both rows.
LEMMA RemoveAppType ==
    ASSUME StateTypeOK, NEW a \in AppIds, RemoveApp(a)
    PROVE  StateTypeOK'
<1>1. /\ DOMAIN apps' \subseteq AppIds
      /\ apps' \in [DOMAIN apps' -> App]
  BY DropIsMap DEF StateTypeOK, RemoveApp
<1>2. apps[a].host \in ComponentIds /\ apps[a].area \in AreaId
  BY DEF StateTypeOK, RemoveApp, App
<1>3. IsIndex(appsByComponent', ComponentIds, AppIds)
  BY <1>2, RemoveFromRowIsIndex DEF StateTypeOK, RemoveApp
<1>4. IsIndex(appsByArea', AreaIds, AppIds)
  BY <1>2, IndexUnderAreaIsIndex DEF StateTypeOK, RemoveApp
<1>5. QED
  BY <1>1, <1>3, <1>4 DEF StateTypeOK, RemoveApp

\* An area is removed with its rows.
LEMMA RemoveAreaType ==
    ASSUME StateTypeOK, NEW r \in AreaIds, RemoveArea(r)
    PROVE  StateTypeOK'
<1>1. /\ IsIndex(componentsByArea', AreaIds, ComponentIds)
      /\ IsIndex(appsByArea', AreaIds, AppIds)
  BY DropIsIndex DEF StateTypeOK, RemoveArea
<1>2. QED
  BY <1>1 DEF StateTypeOK, RemoveArea

\* One step of any caller keeps the types; the other modules use it too.
THEOREM StateTypeStep == StateTypeOK /\ [StateNext]_stateVars => StateTypeOK'
<1> SUFFICES ASSUME StateTypeOK, [StateNext]_stateVars
             PROVE  StateTypeOK'
  OBVIOUS
<1>1. ASSUME NEW c \in ComponentIds, NEW area \in AreaId, InsertComponent(c, area)
      PROVE  StateTypeOK'
  BY <1>1, InsertComponentType
<1>2. ASSUME NEW c \in ComponentIds, RemoveComponent(c)
      PROVE  StateTypeOK'
  BY <1>2, RemoveComponentType
<1>3. ASSUME NEW a \in AppIds, NEW app \in App, InsertApp(a, app)
      PROVE  StateTypeOK'
  BY <1>3, InsertAppType
<1>4. ASSUME NEW a \in AppIds, RemoveApp(a)
      PROVE  StateTypeOK'
  BY <1>4, RemoveAppType
<1>5. ASSUME NEW r \in AreaIds, InsertArea(r)
      PROVE  StateTypeOK'
  BY <1>5 DEF StateTypeOK, InsertArea
<1>6. ASSUME NEW r \in AreaIds, RemoveArea(r)
      PROVE  StateTypeOK'
  BY <1>6, RemoveAreaType
<1>7. CASE UNCHANGED stateVars
  BY <1>7 DEF StateTypeOK, stateVars
<1>8. QED
  BY <1>1, <1>2, <1>3, <1>4, <1>5, <1>6, <1>7 DEF StateNext

\* Whatever the callers do, the registry is of its types and no row is empty.
THEOREM StateTypeCorrect == StateSpec => []StateTypeOK
BY StateTypeInit, StateTypeStep, PTL DEF StateSpec

-----------------------------------------------------------------------------
(***************************************************************************)
(* HostRowsComplete: with the types it is inductive.  An app is put into   *)
(* the row of its host with its entry, and the row of another app loses    *)
(* only that app.                                                          *)
(***************************************************************************)

\* HostRowsComplete without the query: the row of its host holds a live app.
LEMMA HostRows ==
    HostRowsComplete <=> \A a \in DOMAIN apps : a \in Row(appsByComponent, apps[a].host)
BY DEF HostRowsComplete, AppsOfComponent

\* An app that is inserted is put into the row of its host, and no other app leaves
\* its row.
LEMMA InsertAppKeepsHostRows ==
    ASSUME StateTypeOK, HostRowsComplete,
           NEW a \in AppIds, NEW app \in App, InsertApp(a, app)
    PROVE  HostRowsComplete'
<1> SUFFICES ASSUME NEW b \in DOMAIN apps'
             PROVE  b \in Row(appsByComponent', apps'[b].host)
  BY DEF HostRowsComplete, AppsOfComponent
<1>1. \A h, d : d \in Row(appsByComponent', h)
                   <=> d \in Row(appsByComponent, h) \/ (h = app.host /\ d = a)
  BY AddToRowRows DEF InsertApp
<1>2. /\ apps'[a] = app
      /\ b # a => b \in DOMAIN apps /\ apps'[b] = apps[b]
  BY DEF InsertApp, Put
<1>3. QED
  BY <1>1, <1>2, HostRows

\* An app that is removed takes nothing but itself out of a row.
LEMMA RemoveAppKeepsHostRows ==
    ASSUME StateTypeOK, HostRowsComplete, NEW a \in AppIds, RemoveApp(a)
    PROVE  HostRowsComplete'
<1> SUFFICES ASSUME NEW b \in DOMAIN apps'
             PROVE  b \in Row(appsByComponent', apps'[b].host)
  BY DEF HostRowsComplete, AppsOfComponent
<1>1. \A h, d : d \in Row(appsByComponent', h)
                   <=> d \in Row(appsByComponent, h) /\ ~(h = apps[a].host /\ d = a)
  BY RemoveFromRowRows DEF RemoveApp
<1>2. b # a /\ b \in DOMAIN apps /\ apps'[b] = apps[b]
  BY DEF RemoveApp, Drop
<1>3. QED
  BY <1>1, <1>2, HostRows

\* One step of any caller keeps the host rows complete.
THEOREM HostRowsStep ==
    StateTypeOK /\ HostRowsComplete /\ [StateNext]_stateVars => HostRowsComplete'
<1> SUFFICES ASSUME StateTypeOK, HostRowsComplete, [StateNext]_stateVars
             PROVE  HostRowsComplete'
  OBVIOUS
<1>1. ASSUME UNCHANGED <<apps, appsByComponent>>
      PROVE  HostRowsComplete'
  BY <1>1 DEF HostRowsComplete, AppsOfComponent
<1>2. ASSUME NEW c \in ComponentIds, NEW area \in AreaId, InsertComponent(c, area)
      PROVE  HostRowsComplete'
  BY <1>1, <1>2 DEF InsertComponent
<1>3. ASSUME NEW c \in ComponentIds, RemoveComponent(c)
      PROVE  HostRowsComplete'
  BY <1>1, <1>3 DEF RemoveComponent
<1>4. ASSUME NEW a \in AppIds, NEW app \in App, InsertApp(a, app)
      PROVE  HostRowsComplete'
  BY <1>4, InsertAppKeepsHostRows
<1>5. ASSUME NEW a \in AppIds, RemoveApp(a)
      PROVE  HostRowsComplete'
  BY <1>5, RemoveAppKeepsHostRows
<1>6. ASSUME NEW r \in AreaIds, InsertArea(r) \/ RemoveArea(r)
      PROVE  HostRowsComplete'
  BY <1>1, <1>6 DEF InsertArea, RemoveArea
<1>7. CASE UNCHANGED stateVars
  BY <1>1, <1>7 DEF stateVars
<1>8. QED
  BY <1>2, <1>3, <1>4, <1>5, <1>6, <1>7 DEF StateNext

\* Whatever the callers of TopologyState do, apps_of_component misses no app.
THEOREM HostRowsCorrect == StateSpec => []HostRowsComplete
<1>1. StateInit => HostRowsComplete
  BY DEF StateInit, HostRowsComplete
<1>2. QED
  BY <1>1, StateTypeCorrect, HostRowsStep, PTL DEF StateSpec

-----------------------------------------------------------------------------
(***************************************************************************)
(* RowsSound, for callers that keep relationships.  Its three parts have   *)
(* the same form: every id in a row of an index is live and belongs to     *)
(* the key of the row.                                                     *)
(***************************************************************************)

\* Soundness said with Row, so that the lemmas on rows apply.
LEMMA SoundRows ==
    ASSUME StateTypeOK
    PROVE  RowsSound <=>
        /\ \A h \in ComponentIds : \A a \in Row(appsByComponent, h) :
              a \in DOMAIN apps /\ apps[a].host = h
        /\ \A r \in AreaIds : \A c \in Row(componentsByArea, r) :
              c \in DOMAIN components /\ components[c] = r
        /\ \A r \in AreaIds : \A a \in Row(appsByArea, r) :
              a \in DOMAIN apps /\ apps[a].area = r
BY DEF RowsSound, Row, StateTypeOK, IsIndex

\* An overwriting insertion adds the id to a row that has it already, because
\* the entry that was there names the same host and area.
LEMMA InsertComponentKeepsSound ==
    ASSUME StateTypeOK, StateTypeOK', RowsSound, KeepsRelationships,
           NEW c \in ComponentIds, NEW area \in AreaId, InsertComponent(c, area)
    PROVE  RowsSound'
<1>1. \A r \in AreaIds : \A d : d \in Row(componentsByArea', r)
                                  <=> d \in Row(componentsByArea, r) \/ (r = area /\ d = c)
  BY IndexUnderAreaRows DEF InsertComponent
<1>2. /\ DOMAIN components' = DOMAIN components \cup {c}
      /\ components'[c] = area
      /\ \A d \in DOMAIN components : components'[d] = components[d]
  BY DEF InsertComponent, Put, KeepsRelationships
<1>3. \A r \in AreaIds : \A d \in Row(componentsByArea', r) :
         d \in DOMAIN components' /\ components'[d] = r
  BY <1>1, <1>2, SoundRows
<1>4. /\ \A h \in ComponentIds : \A a \in Row(appsByComponent', h) :
            a \in DOMAIN apps' /\ apps'[a].host = h
      /\ \A r \in AreaIds : \A a \in Row(appsByArea', r) :
            a \in DOMAIN apps' /\ apps'[a].area = r
  BY SoundRows DEF InsertComponent
<1>5. QED
  BY <1>3, <1>4 DEF RowsSound, Row, StateTypeOK, IsIndex

\* A component that is removed leaves the one row it is in.
LEMMA RemoveComponentKeepsSound ==
    ASSUME StateTypeOK, StateTypeOK', RowsSound,
           NEW c \in ComponentIds, RemoveComponent(c)
    PROVE  RowsSound'
<1>1. components[c] \in AreaId
  BY DEF StateTypeOK, RemoveComponent
<1>2. \A r \in AreaIds : \A d : d \in Row(componentsByArea', r)
         <=> d \in Row(componentsByArea, r) /\ ~(r = components[c] /\ d = c)
  BY <1>1, UnindexUnderAreaRows DEF RemoveComponent
<1>3. /\ DOMAIN components' = DOMAIN components \ {c}
      /\ \A d \in DOMAIN components' : components'[d] = components[d]
  BY DEF RemoveComponent, Drop
<1>4. \A r \in AreaIds : \A d \in Row(componentsByArea', r) :
         d \in DOMAIN components' /\ components'[d] = r
  BY <1>2, <1>3, SoundRows
<1>5. /\ \A h \in ComponentIds : \A a \in Row(appsByComponent', h) :
            a \in DOMAIN apps' /\ apps'[a].host = h
      /\ \A r \in AreaIds : \A a \in Row(appsByArea', r) :
            a \in DOMAIN apps' /\ apps'[a].area = r
  BY SoundRows DEF RemoveComponent
<1>6. QED
  BY <1>4, <1>5 DEF RowsSound, Row, StateTypeOK, IsIndex

\* An app that keeps its relationships is put into the rows it is in already.
LEMMA InsertAppKeepsSound ==
    ASSUME StateTypeOK, StateTypeOK', RowsSound, KeepsRelationships,
           NEW a \in AppIds, NEW app \in App, InsertApp(a, app)
    PROVE  RowsSound'
<1>1. app.area \in AreaId
  BY DEF App
<1>2. \A h, d : d \in Row(appsByComponent', h)
                   <=> d \in Row(appsByComponent, h) \/ (h = app.host /\ d = a)
  BY AddToRowRows DEF InsertApp
<1>3. \A r \in AreaIds : \A d : d \in Row(appsByArea', r)
                                  <=> d \in Row(appsByArea, r) \/ (r = app.area /\ d = a)
  BY <1>1, IndexUnderAreaRows DEF InsertApp
<1>4. /\ DOMAIN apps' = DOMAIN apps \cup {a}
      /\ apps'[a] = app
      /\ \A b \in DOMAIN apps : apps'[b] = apps[b]
  BY DEF InsertApp, Put, KeepsRelationships
<1>5. \A h \in ComponentIds : \A b \in Row(appsByComponent', h) :
         b \in DOMAIN apps' /\ apps'[b].host = h
  BY <1>2, <1>4, SoundRows
<1>6. \A r \in AreaIds : \A b \in Row(appsByArea', r) :
         b \in DOMAIN apps' /\ apps'[b].area = r
  BY <1>3, <1>4, SoundRows
<1>7. \A r \in AreaIds : \A d \in Row(componentsByArea', r) :
         d \in DOMAIN components' /\ components'[d] = r
  BY SoundRows DEF InsertApp
<1>8. QED
  BY <1>5, <1>6, <1>7 DEF RowsSound, Row, StateTypeOK, IsIndex

\* An app that is removed leaves the two rows it is in.
LEMMA RemoveAppKeepsSound ==
    ASSUME StateTypeOK, StateTypeOK', RowsSound, NEW a \in AppIds, RemoveApp(a)
    PROVE  RowsSound'
<1>1. apps[a].area \in AreaId
  BY DEF App, StateTypeOK, RemoveApp
<1>2. \A h, d : d \in Row(appsByComponent', h)
                   <=> d \in Row(appsByComponent, h) /\ ~(h = apps[a].host /\ d = a)
  BY RemoveFromRowRows DEF RemoveApp
<1>3. \A r \in AreaIds : \A d : d \in Row(appsByArea', r)
         <=> d \in Row(appsByArea, r) /\ ~(r = apps[a].area /\ d = a)
  BY <1>1, UnindexUnderAreaRows DEF RemoveApp
<1>4. /\ DOMAIN apps' = DOMAIN apps \ {a}
      /\ \A b \in DOMAIN apps' : apps'[b] = apps[b]
  BY DEF RemoveApp, Drop
<1>5. \A h \in ComponentIds : \A b \in Row(appsByComponent', h) :
         b \in DOMAIN apps' /\ apps'[b].host = h
  BY <1>2, <1>4, SoundRows
<1>6. \A r \in AreaIds : \A b \in Row(appsByArea', r) :
         b \in DOMAIN apps' /\ apps'[b].area = r
  BY <1>3, <1>4, SoundRows
<1>7. \A r \in AreaIds : \A d \in Row(componentsByArea', r) :
         d \in DOMAIN components' /\ components'[d] = r
  BY SoundRows DEF RemoveApp
<1>8. QED
  BY <1>5, <1>6, <1>7 DEF RowsSound, Row, StateTypeOK, IsIndex

\* Removing an area only takes rows away.
LEMMA RemoveAreaKeepsSound ==
    ASSUME StateTypeOK, RowsSound, NEW r \in AreaIds, RemoveArea(r)
    PROVE  RowsSound'
BY DEF RowsSound, RemoveArea, Drop

\* One step of a caller that keeps relationships keeps the rows sound.
THEOREM RowsSoundStep ==
    StateTypeOK /\ RowsSound /\ [StableNext]_stateVars => RowsSound'
<1> SUFFICES ASSUME StateTypeOK, RowsSound, [StableNext]_stateVars
             PROVE  RowsSound'
  OBVIOUS
<1>1. CASE UNCHANGED stateVars
  BY <1>1 DEF RowsSound, stateVars
<1>2. CASE StableNext
  <2>1. StateTypeOK' /\ KeepsRelationships
    BY <1>2, StateTypeStep DEF StableNext
  <2>2. ASSUME NEW c \in ComponentIds, NEW area \in AreaId, InsertComponent(c, area)
        PROVE  RowsSound'
    BY <2>1, <2>2, InsertComponentKeepsSound
  <2>3. ASSUME NEW c \in ComponentIds, RemoveComponent(c)
        PROVE  RowsSound'
    BY <2>1, <2>3, RemoveComponentKeepsSound
  <2>4. ASSUME NEW a \in AppIds, NEW app \in App, InsertApp(a, app)
        PROVE  RowsSound'
    BY <2>1, <2>4, InsertAppKeepsSound
  <2>5. ASSUME NEW a \in AppIds, RemoveApp(a)
        PROVE  RowsSound'
    BY <2>1, <2>5, RemoveAppKeepsSound
  <2>6. ASSUME NEW r \in AreaIds, InsertArea(r)
        PROVE  RowsSound'
    BY <2>6 DEF RowsSound, InsertArea
  <2>7. ASSUME NEW r \in AreaIds, RemoveArea(r)
        PROVE  RowsSound'
    BY <2>7, RemoveAreaKeepsSound
  <2>8. QED
    BY <1>2, <2>2, <2>3, <2>4, <2>5, <2>6, <2>7 DEF StableNext, StateNext
<1>3. QED
  BY <1>1, <1>2

\* Callers that never overwrite an entry with another host or area find in the
\* index only relationships that exist.
THEOREM RowsSoundCorrect == StableSpec => []RowsSound
<1>1. StateInit => RowsSound
  BY DEF StateInit, RowsSound
<1>2. StateTypeOK /\ [StableNext]_stateVars => StateTypeOK'
  BY StateTypeStep DEF StableNext
<1>3. QED
  BY <1>1, <1>2, StateTypeInit, RowsSoundStep, PTL DEF StableSpec

-----------------------------------------------------------------------------
(***************************************************************************)
(* The inverse properties, for callers that also remove only empty areas.  *)
(* Soundness gives one direction; the other needs the area rows to be      *)
(* complete, which removing an area in use breaks.                         *)
(***************************************************************************)

AreaRowsComplete ==
    /\ \A c \in DOMAIN components : \A r \in AreaIds :
          components[c] = r => c \in Row(componentsByArea, r)
    /\ \A a \in DOMAIN apps : \A r \in AreaIds :
          apps[a].area = r => a \in Row(appsByArea, r)

\* A component that is inserted is put into the row of its area.
LEMMA InsertComponentKeepsAreaRows ==
    ASSUME AreaRowsComplete,
           NEW c \in ComponentIds, NEW area \in AreaId, InsertComponent(c, area)
    PROVE  AreaRowsComplete'
<1>1. \A r \in AreaIds : \A d : d \in Row(componentsByArea', r)
                                  <=> d \in Row(componentsByArea, r) \/ (r = area /\ d = c)
  BY IndexUnderAreaRows DEF InsertComponent
<1>2. \A d \in DOMAIN components' :
         IF d = c THEN components'[d] = area
                  ELSE d \in DOMAIN components /\ components'[d] = components[d]
  BY DEF InsertComponent, Put
<1>3. apps' = apps /\ appsByArea' = appsByArea
  BY DEF InsertComponent
<1>4. QED
  BY <1>1, <1>2, <1>3 DEF AreaRowsComplete

\* A component that is removed takes nothing but itself out of a row.
LEMMA RemoveComponentKeepsAreaRows ==
    ASSUME StateTypeOK, AreaRowsComplete, NEW c \in ComponentIds, RemoveComponent(c)
    PROVE  AreaRowsComplete'
<1>1. components[c] \in AreaId
  BY DEF StateTypeOK, RemoveComponent
<1>2. \A r \in AreaIds : \A d : d \in Row(componentsByArea', r)
         <=> d \in Row(componentsByArea, r) /\ ~(r = components[c] /\ d = c)
  BY <1>1, UnindexUnderAreaRows DEF RemoveComponent
<1>3. \A d \in DOMAIN components' :
         d # c /\ d \in DOMAIN components /\ components'[d] = components[d]
  BY DEF RemoveComponent, Drop
<1>4. apps' = apps /\ appsByArea' = appsByArea
  BY DEF RemoveComponent
<1>5. QED
  BY <1>2, <1>3, <1>4 DEF AreaRowsComplete

\* An app that is inserted is put into the row of its area.
LEMMA InsertAppKeepsAreaRows ==
    ASSUME AreaRowsComplete, NEW a \in AppIds, NEW app \in App, InsertApp(a, app)
    PROVE  AreaRowsComplete'
<1>1. app.area \in AreaId
  BY DEF App
<1>2. \A r \in AreaIds : \A d : d \in Row(appsByArea', r)
                                  <=> d \in Row(appsByArea, r) \/ (r = app.area /\ d = a)
  BY <1>1, IndexUnderAreaRows DEF InsertApp
<1>3. \A d \in DOMAIN apps' :
         IF d = a THEN apps'[d] = app ELSE d \in DOMAIN apps /\ apps'[d] = apps[d]
  BY DEF InsertApp, Put
<1>4. components' = components /\ componentsByArea' = componentsByArea
  BY DEF InsertApp
<1>5. QED
  BY <1>2, <1>3, <1>4 DEF AreaRowsComplete

\* An app that is removed takes nothing but itself out of a row.
LEMMA RemoveAppKeepsAreaRows ==
    ASSUME StateTypeOK, AreaRowsComplete, NEW a \in AppIds, RemoveApp(a)
    PROVE  AreaRowsComplete'
<1>1. apps[a].area \in AreaId
  BY DEF App, StateTypeOK, RemoveApp
<1>2. \A r \in AreaIds : \A d : d \in Row(appsByArea', r)
         <=> d \in Row(appsByArea, r) /\ ~(r = apps[a].area /\ d = a)
  BY <1>1, UnindexUnderAreaRows DEF RemoveApp
<1>3. \A d \in DOMAIN apps' : d # a /\ d \in DOMAIN apps /\ apps'[d] = apps[d]
  BY DEF RemoveApp, Drop
<1>4. components' = components /\ componentsByArea' = componentsByArea
  BY DEF RemoveApp
<1>5. QED
  BY <1>2, <1>3, <1>4 DEF AreaRowsComplete

\* The rows of an area that nobody names are not missed.
LEMMA RemoveAreaKeepsAreaRows ==
    ASSUME AreaRowsComplete, RemovesEmptyAreas, NEW r \in AreaIds, RemoveArea(r)
    PROVE  AreaRowsComplete'
<1>1. /\ \A c \in DOMAIN components : components[c] # r
      /\ \A a \in DOMAIN apps : apps[a].area # r
  BY DEF RemovesEmptyAreas, RemoveArea
<1>2. \A x, y : /\ y \in Row(componentsByArea', x) <=> y \in Row(componentsByArea, x) /\ x # r
                /\ y \in Row(appsByArea', x) <=> y \in Row(appsByArea, x) /\ x # r
  BY DropRows DEF RemoveArea
<1>3. components' = components /\ apps' = apps
  BY DEF RemoveArea
<1>4. QED
  BY <1>1, <1>2, <1>3 DEF AreaRowsComplete

\* One step of a caller that keeps both disciplines keeps the area rows complete.
THEOREM AreaRowsStep ==
    StateTypeOK /\ AreaRowsComplete /\ [TidyNext]_stateVars => AreaRowsComplete'
<1> SUFFICES ASSUME StateTypeOK, AreaRowsComplete, [TidyNext]_stateVars
             PROVE  AreaRowsComplete'
  OBVIOUS
<1>1. ASSUME UNCHANGED <<components, apps, componentsByArea, appsByArea>>
      PROVE  AreaRowsComplete'
  BY <1>1 DEF AreaRowsComplete
<1>2. CASE UNCHANGED stateVars
  BY <1>1, <1>2 DEF stateVars
<1>3. ASSUME NEW c \in ComponentIds, NEW area \in AreaId, InsertComponent(c, area)
      PROVE  AreaRowsComplete'
  BY <1>3, InsertComponentKeepsAreaRows
<1>4. ASSUME NEW c \in ComponentIds, RemoveComponent(c)
      PROVE  AreaRowsComplete'
  BY <1>4, RemoveComponentKeepsAreaRows
<1>5. ASSUME NEW a \in AppIds, NEW app \in App, InsertApp(a, app)
      PROVE  AreaRowsComplete'
  BY <1>5, InsertAppKeepsAreaRows
<1>6. ASSUME NEW a \in AppIds, RemoveApp(a)
      PROVE  AreaRowsComplete'
  BY <1>6, RemoveAppKeepsAreaRows
<1>7. ASSUME NEW r \in AreaIds, InsertArea(r)
      PROVE  AreaRowsComplete'
  BY <1>1, <1>7 DEF InsertArea
<1>8. ASSUME RemovesEmptyAreas, NEW r \in AreaIds, RemoveArea(r)
      PROVE  AreaRowsComplete'
  BY <1>8, RemoveAreaKeepsAreaRows
<1>9. QED
  BY <1>2, <1>3, <1>4, <1>5, <1>6, <1>7, <1>8 DEF TidyNext, StableNext, StateNext

\* Rows that are sound and complete are the inverse of the attributes.
LEMMA SoundAndCompleteInvert ==
    ASSUME StateTypeOK, RowsSound, HostRowsComplete, AreaRowsComplete
    PROVE  ContainsInvertsBelongsTo /\ HostsInvertsLocatedOn
<1>1. ASSUME NEW r \in areas
      PROVE  /\ \A c \in DOMAIN components :
                   c \in ComponentsOfArea(r) <=> AreaOfComponent(c) = {r}
             /\ \A a \in DOMAIN apps : a \in AppsOfArea(r) <=> AreaOfApp(a) = {r}
  <2>1. r \in AreaIds
    BY DEF StateTypeOK
  <2>2. ASSUME NEW c \in DOMAIN components
        PROVE  c \in Row(componentsByArea, r) <=> components[c] = r
    BY <2>1, <2>2, SoundRows DEF AreaRowsComplete
  <2>3. ASSUME NEW a \in DOMAIN apps
        PROVE  a \in Row(appsByArea, r) <=> apps[a].area = r
    BY <2>1, <2>3, SoundRows DEF AreaRowsComplete
  <2>4. QED
    BY <2>2, <2>3 DEF ComponentsOfArea, AreaOfComponent, AppsOfArea, AreaOfApp
<1>2. ASSUME NEW c \in DOMAIN components, NEW a \in DOMAIN apps
      PROVE  a \in AppsOfComponent(c) <=> ComponentOfApp(a) = {c}
  <2>1. c \in ComponentIds
    BY DEF StateTypeOK
  <2>2. a \in Row(appsByComponent, c) <=> apps[a].host = c
    BY <2>1, SoundRows, HostRows
  <2>3. QED
    BY <2>2 DEF AppsOfComponent, ComponentOfApp
<1>3. QED
  BY <1>1, <1>2 DEF ContainsInvertsBelongsTo, HostsInvertsLocatedOn

\* For callers that keep both disciplines, "contains" and "belongs-to" and
\* "hosts" and "is-located-on" are each other's inverse.
THEOREM RelationshipsInvert ==
    TidySpec => [](ContainsInvertsBelongsTo /\ HostsInvertsLocatedOn)
<1> DEFINE Inv == StateTypeOK /\ RowsSound /\ HostRowsComplete /\ AreaRowsComplete
<1>1. StateInit => Inv
  BY StateTypeInit DEF StateInit, RowsSound, HostRowsComplete, AreaRowsComplete
<1>2. Inv /\ [TidyNext]_stateVars => Inv'
  BY StateTypeStep, HostRowsStep, RowsSoundStep, AreaRowsStep DEF TidyNext, StableNext
<1>3. Inv => ContainsInvertsBelongsTo /\ HostsInvertsLocatedOn
  BY SoundAndCompleteInvert
<1>4. QED
  BY <1>1, <1>2, <1>3, PTL DEF TidySpec

\* "hosts" and "is-located-on" need only the first of the disciplines: areas may
\* come and go as they like.
THEOREM HostsInvertCorrect == StableSpec => []HostsInvertsLocatedOn
<1> DEFINE Inv == StateTypeOK /\ RowsSound /\ HostRowsComplete
<1>1. StateInit => Inv
  BY StateTypeInit DEF StateInit, RowsSound, HostRowsComplete
<1>2. Inv /\ [StableNext]_stateVars => Inv'
  BY StateTypeStep, HostRowsStep, RowsSoundStep DEF StableNext
<1>3. Inv => HostsInvertsLocatedOn
  <2> SUFFICES ASSUME Inv, NEW c \in DOMAIN components, NEW a \in DOMAIN apps
               PROVE  a \in AppsOfComponent(c) <=> ComponentOfApp(a) = {c}
    BY DEF HostsInvertsLocatedOn
  <2>1. a \in Row(appsByComponent, c) <=> apps[a].host = c
    BY SoundRows, HostRows DEF StateTypeOK
  <2>2. QED
    BY <2>1 DEF AppsOfComponent, ComponentOfApp
<1>4. QED
  BY <1>1, <1>2, <1>3, PTL DEF StableSpec

-----------------------------------------------------------------------------
(***************************************************************************)
(* MembersStay: a row loses an id only with the entry of that id, or with  *)
(* the area.                                                               *)
(***************************************************************************)

\* No mutation takes a live entity out of the row of an area that stays.
LEMMA RowsKeepMembers ==
    ASSUME StateTypeOK, StateNext, NEW r \in areas \cap areas'
    PROVE  /\ \A c \in Row(componentsByArea, r) :
                 c \in DOMAIN components' => c \in Row(componentsByArea', r)
           /\ \A a \in Row(appsByArea, r) :
                 a \in DOMAIN apps' => a \in Row(appsByArea', r)
<1> DEFINE Goal == /\ \A c \in Row(componentsByArea, r) :
                         c \in DOMAIN components' => c \in Row(componentsByArea', r)
                   /\ \A a \in Row(appsByArea, r) :
                         a \in DOMAIN apps' => a \in Row(appsByArea', r)
<1>1. r \in AreaIds
  BY DEF StateTypeOK
<1>2. ASSUME NEW c \in ComponentIds, NEW area \in AreaId, InsertComponent(c, area)
      PROVE  Goal
  BY <1>1, <1>2, IndexUnderAreaRows DEF InsertComponent
<1>3. ASSUME NEW c \in ComponentIds, RemoveComponent(c)
      PROVE  Goal
  <2>1. components[c] \in AreaId
    BY <1>3 DEF StateTypeOK, RemoveComponent
  <2>2. \A d : d \in Row(componentsByArea', r)
                 <=> d \in Row(componentsByArea, r) /\ ~(r = components[c] /\ d = c)
    BY <1>1, <1>3, <2>1, UnindexUnderAreaRows DEF RemoveComponent
  <2>3. c \notin DOMAIN components' /\ appsByArea' = appsByArea
    BY <1>3 DEF RemoveComponent, Drop
  <2>4. QED
    BY <2>2, <2>3
<1>4. ASSUME NEW a \in AppIds, NEW app \in App, InsertApp(a, app)
      PROVE  Goal
  <2>1. app.area \in AreaId
    BY DEF App
  <2>2. QED
    BY <1>1, <1>4, <2>1, IndexUnderAreaRows DEF InsertApp
<1>5. ASSUME NEW a \in AppIds, RemoveApp(a)
      PROVE  Goal
  <2>1. apps[a].area \in AreaId
    BY <1>5 DEF StateTypeOK, RemoveApp, App
  <2>2. \A d : d \in Row(appsByArea', r)
                 <=> d \in Row(appsByArea, r) /\ ~(r = apps[a].area /\ d = a)
    BY <1>1, <1>5, <2>1, UnindexUnderAreaRows DEF RemoveApp
  <2>3. a \notin DOMAIN apps' /\ componentsByArea' = componentsByArea
    BY <1>5 DEF RemoveApp, Drop
  <2>4. QED
    BY <2>2, <2>3
<1>6. ASSUME NEW s \in AreaIds, InsertArea(s)
      PROVE  Goal
  BY <1>6 DEF InsertArea
<1>7. ASSUME NEW s \in AreaIds, RemoveArea(s)
      PROVE  Goal
  <2>1. r # s
    BY <1>7 DEF RemoveArea
  <2>2. QED
    BY <1>7, <2>1, DropRows DEF RemoveArea
<1>8. QED
  BY <1>2, <1>3, <1>4, <1>5, <1>6, <1>7 DEF StateNext

\* Whatever the callers do, what an area contains is reported until it goes,
\* names another area, or the area goes.
THEOREM MembersStayCorrect == StateSpec => MembersStay
<1> DEFINE Stay ==
      \A r \in areas \cap areas' :
          /\ \A c \in ComponentsOfArea(r) :
                c \in DOMAIN components' /\ components'[c] = r
                    => c \in ComponentsOfArea(r)'
          /\ \A a \in AppsOfArea(r) :
                a \in DOMAIN apps' /\ apps'[a].area = r => a \in AppsOfArea(r)'
<1>1. StateTypeOK /\ [StateNext]_stateVars => [Stay]_stateVars
  <2>1. ASSUME StateTypeOK, StateNext PROVE Stay
    BY <2>1, RowsKeepMembers DEF ComponentsOfArea, AppsOfArea
  <2>2. QED
    BY <2>1
<1>2. QED
  BY <1>1, StateTypeCorrect, PTL DEF StateSpec, MembersStay

=============================================================================
