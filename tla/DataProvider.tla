---------------------------- MODULE DataProvider ----------------------------
(***************************************************************************)
(* The data provider of opensovd-providers: a builder that collects        *)
(* resources call by call, and the provider it builds, which lists them,   *)
(* their categories, groups and tags, and passes reads and writes on.      *)
(*                                                                         *)
(* A resource is its id, its category, its groups, its tags, what it can   *)
(* do and whose schema and translation it has; its name and the order of   *)
(* the groups of one resource are left out.  Values are external: a        *)
(* resource answers as it likes.                                           *)
(***************************************************************************)
EXTENDS Naturals, Sequences

CONSTANTS DataIds, CategoryNames, GroupNames, TagNames, TranslationIds,
          Nothing,         \* no translation, no schema
          MaxResources  \* bound: resources added to the builder

ASSUME MaxResourcesAssumption == MaxResources \in Nat

VARIABLES resources,  \* the resources added so far, in order
          built       \* "building", "ok" or "duplicate"

providerVars == <<resources, built>>

Resource == [id : DataIds, category : CategoryNames, groups : SUBSET GroupNames,
             tags : SUBSET TagNames, translation : TranslationIds \cup {Nothing},
             schema : {"derived", "given"}, readable : BOOLEAN, writable : BOOLEAN]

ProviderInit ==
    /\ resources = <<>>
    /\ built = "building"

(***************************************************************************)
(* The builder.                                                            *)
(***************************************************************************)

\* read_data, write_data and data.
AddData(id, category, readable, writable) ==
    /\ built = "building"
    /\ Len(resources) < MaxResources
    /\ resources' = Append(resources,
           [id |-> id, category |-> category, groups |-> {}, tags |-> {},
            translation |-> Nothing, schema |-> "derived",
            readable |-> readable, writable |-> writable])
    /\ UNCHANGED built

ReadData(id, category)      == AddData(id, category, TRUE, FALSE)
WriteData(id, category)     == AddData(id, category, FALSE, TRUE)
ReadWriteData(id, category) == AddData(id, category, TRUE, TRUE)

\* The other calls set a field of the last resource and do nothing before there is
\* one.
SetLast(field, value) ==
    /\ built = "building"
    /\ resources # <<>>
    /\ resources' = [resources EXCEPT ![Len(resources)][field] = value]
    /\ UNCHANGED built

SetGroups(groups) == SetLast("groups", groups)

SetTags(tags) == SetLast("tags", tags)

SetTranslation(translation) == SetLast("translation", translation)

SetSchema == SetLast("schema", "given")

Duplicated ==
    \E i, j \in DOMAIN resources : i # j /\ resources[i].id = resources[j].id

\* Faulty variant of Build: the later resource of an id takes the earlier one's
\* place, in its position, and nobody is told.
BuildLastWins ==
    /\ built = "building"
    /\ built' = "ok"
    /\ resources' = [i \in DOMAIN resources |->
           resources[CHOOSE j \in DOMAIN resources :
               /\ resources[j].id = resources[i].id
               /\ \A k \in j + 1 .. Len(resources) : resources[k].id # resources[i].id]]

\* build() consumes the builder.
Build ==
    /\ built = "building"
    /\ built' = IF Duplicated THEN "duplicate" ELSE "ok"
    /\ UNCHANGED resources

ProviderNext ==
    \/ \E id \in DataIds, category \in CategoryNames :
          ReadData(id, category) \/ WriteData(id, category) \/ ReadWriteData(id, category)
    \/ \E groups \in SUBSET GroupNames : SetGroups(groups)
    \/ \E tags \in SUBSET TagNames : SetTags(tags)
    \/ \E translation \in TranslationIds : SetTranslation(translation)
    \/ SetSchema
    \/ Build

ProviderSpec == ProviderInit /\ [][ProviderNext]_providerVars

(***************************************************************************)
(* The queries of a provider.                                              *)
(***************************************************************************)

NoFilter == [categories |-> {}, groups |-> {}, tags |-> {}]

\* Each part of the filter that is not empty asks for one of its members.
MatchesFilter(resource, filter) ==
    /\ filter.categories = {} \/ resource.category \in filter.categories
    /\ filter.groups = {} \/ resource.groups \cap filter.groups # {}
    /\ filter.tags = {} \/ resource.tags \cap filter.tags # {}

\* The positions of the resources that are listed.
List(filter) == {i \in DOMAIN resources : MatchesFilter(resources[i], filter)}

\* What is reported of the resources, here and by the trait for providers that only
\* list: a category once, with the translation of its first resource.
CategoriesOf(list) ==
    {[category |-> list[i].category, translation |-> list[i].translation] :
        i \in {i \in DOMAIN list : \A j \in 1 .. i - 1 : list[j].category # list[i].category}}

TagsOf(list) == UNION {list[i].tags : i \in DOMAIN list}

Categories == CategoriesOf(resources)
Tags       == TagsOf(resources)

\* Faulty variant of Groups: a group goes by its first resource, and only then is
\* the category looked at.
GroupsOfFirst(categories) ==
    {info \in [id : GroupNames, category : categories] :
        \E i \in DOMAIN resources :
            /\ info.id \in resources[i].groups
            /\ info.category = resources[i].category
            /\ \A j \in 1 .. i - 1 : info.id \notin resources[j].groups}

\* groups(category_filter), where categories is the one asked for or all.  A group
\* is reported once, with the category of the first resource that is in it and
\* passes the filter.
GroupsOf(list, categories) ==
    {info \in [id : GroupNames, category : categories] :
        \E i \in DOMAIN list :
            /\ info.id \in list[i].groups
            /\ info.category = list[i].category
            /\ \A j \in 1 .. i - 1 :
                  list[j].category \in categories => info.id \notin list[j].groups}

Groups(categories) == GroupsOf(resources, categories)

\* What the provider itself answers; "resource" where it asks the resource.
Find(id) == {i \in DOMAIN resources : resources[i].id = id}

ReadAnswers(id) ==
    IF Find(id) = {} THEN {"NotFound"}
    ELSE {IF resources[i].readable THEN "resource" ELSE "Internal" : i \in Find(id)}

\* The schema that comes with an answer.
SchemaOfRead(id, includeSchema) ==
    {IF includeSchema THEN resources[i].schema ELSE Nothing : i \in Find(id)}

\* A value that is not of the type of the resource is an internal error.
WriteAnswers(id, typed) ==
    IF Find(id) = {} THEN {"NotFound"}
    ELSE {CASE ~resources[i].writable -> "ReadOnly"
            [] resources[i].writable /\ ~typed -> "Internal"
            [] resources[i].writable /\ typed -> "resource" : i \in Find(id)}

-----------------------------------------------------------------------------

\* Type invariant.
ProviderTypeOK ==
    /\ resources \in Seq(Resource)
    /\ Len(resources) <= MaxResources
    /\ built \in {"building", "ok", "duplicate"}

\* With the types: in a provider that was built an id names one resource, whatever
\* the order of the builder's calls: what list() reports is what read() and write()
\* reach, and each of them has one answer.
IdsNameOneResource ==
    /\ ProviderTypeOK
    /\ built = "ok" => \A i \in List(NoFilter) :
          /\ Find(resources[i].id) = {i}
          /\ ReadAnswers(resources[i].id) # {"NotFound"}
          /\ WriteAnswers(resources[i].id, TRUE) # {"NotFound"}
          /\ SchemaOfRead(resources[i].id, TRUE) = {resources[i].schema}

\* The categories and groups lead to the data.  A category is reported once and every
\* resource is found under its own.  A group is never reported with a category under
\* which it has no data, and each group of a resource is found under the category
\* of the resource, also where other categories have a group of the same name.
GroupsLeadToData ==
    /\ \A i \in DOMAIN resources :
          \E info \in Categories :
             i \in List([NoFilter EXCEPT !.categories = {info.category}])
    /\ \A a, b \in Categories : a.category = b.category => a = b
    /\ \A info \in Groups(CategoryNames) :
          List([NoFilter EXCEPT !.categories = {info.category}, !.groups = {info.id}]) # {}
    /\ \A i \in DOMAIN resources : \A g \in resources[i].groups :
          [id |-> g, category |-> resources[i].category] \in Groups({resources[i].category})
    /\ \A a, b \in Groups(CategoryNames) : a.id = b.id => a = b

=============================================================================
