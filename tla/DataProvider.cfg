SPECIFICATION ProviderSpec
CONSTANTS
    DataIds = {d1, d2, d3}
    CategoryNames = {k1, k2}
    GroupNames = {g1}
    TagNames = {t1}
    TranslationIds = {w1}
    Nothing = Nothing
    MaxResources = 3
CHECK_DEADLOCK FALSE
SYMMETRY Symmetry
INVARIANTS
    IdsNameOneResource
    GroupsLeadToData
