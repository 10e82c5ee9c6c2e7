SPECIFICATION StateSpec
CONSTANTS
    ComponentIds <- MCComponentIds
    AppIds <- MCAppIds
    AreaIds <- MCAreaIds
    NoArea = NoArea
    TagsOf <- MCTagsOf
    HasData <- MCHasData
    Queries <- MCQueries
    Base <- MCSovd
    Addresses <- MCAddresses
    Clients <- MCClients
    Items <- MCItems
    Texts <- MCTexts
INVARIANTS
    StateTypeOK
    HostRowsComplete
    HrefsCanBeFollowed
    LinksCanBeFollowed
    ClientFindsWhatItNames
    EverythingCanBeFound
PROPERTY
    MembersStay
