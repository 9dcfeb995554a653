\* Items that emission skips shift the findings of those after them.
SPECIFICATION Spec
CONSTANTS
    Versions = {"v1", "v2"}
    FieldTree <- Served
    Required <- RequiredBy
    Data = {"web", "'80'", "80", "true", "{}"}
    Flavor <- FlavorOf
    Spelling <- SpellingOf
    Enum <- Lists
    Refused <- Patterns
    Identity = {"apiVersion", "kind"}
    Null = Null
    GatePaths <- Gate
    MaxItems = 2
    MapKeys = {1, 2}
    DigitKeys = {2}
    MaxEntries = 5
    Ruled <- Rules
    MaxCauses = 1
INVARIANT FindingsMarkOffenders
