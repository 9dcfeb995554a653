\* Keys typed ahead of the way back to the picker.
SPECIFICATION Spec
CONSTANTS
    Kinds = {"apps/v1"}
    PathOf <- Document
    Versions <- ServedVersions
    Fault <- Faulty
    Fields = {"name", "list"}
    Admits <- Defined
    Shape <- Composed
    Values = {a}
    NameField = "name"
    NamespaceField = "name"
    NamespaceNeeded <- ClusterScoped
    Files = {}
    Slots = {s1, s2}
    MaxSeq = 0
    TypeAhead = TRUE
    Null = Null
PROPERTIES
    NoSilentLoss
