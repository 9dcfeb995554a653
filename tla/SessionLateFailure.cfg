\* One Kind fetched twice, the first fetch failing late.
SPECIFICATION Spec
CONSTANTS
    Kinds = {"apps/v1", "apps/v1beta1"}
    PathOf <- Document
    Versions <- ServedVersions
    Fault <- Faulty
    Fields = {"name"}
    Admits <- Defined
    Shape <- Composed
    Values = {a}
    NameField = "name"
    NamespaceField = "name"
    NamespaceNeeded <- ClusterScoped
    Files = {}
    Slots = {s1, s2}
    MaxSeq = 0
    TypeAhead = FALSE
    Null = Null
PROPERTIES
    LateFailureIsDropped
