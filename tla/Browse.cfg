\* From the command line into the compose view, one small cluster.
SPECIFICATION BrowseSpec
CONSTANTS
    Versions <- Composable
    FieldTree <- Described
    Required <- NothingRequired
    Data = {"web", "80", "{}"}
    Flavor <- FlavorOf
    Spelling <- AsWritten
    Enum <- NoEnum
    Refused <- NothingRefused
    Identity = {"apiVersion", "kind"}
    Null = Null
    GatePaths = {}
    MaxItems = 2
    MapKeys = {1, 2}
    DigitKeys = {}
    MaxEntries = 3
    Ruled <- Rules
    MaxCauses = 1
    FieldRank <- FieldOrder
    FieldText <- FieldLetters
    VersionText <- VersionLetters
    Letters = {"p", "o"}
    MaxFilter = 2
    Resources <- Cluster
    Preferred <- Prefers
    Rank <- StringOrder
    Nothing = Nothing
    Arguments <- Links
    Outages <- Broken
    KindText <- KindLetters
    Heights = {2, 3}
CHECK_DEADLOCK FALSE
INVARIANTS
    BrowseTypeOK
    OneBrokenApiserviceHidesOnlyItself
    HighlightIsOnScreen
    SwitchOffersEveryServedVersion
    SearchListsWhatMatches
PROPERTIES
    LinkLandsOnPreferred
    FocusStaysWithItsRow
    NoSilentUnset
    JumpsLand
