\* A pop-out typed twice.
SPECIFICATION Spec
CONSTANTS
    Kinds = {"apps/v1"}
    PathOf <- Document
    Versions <- ServedVersions
    Fault <- Faulty
    Fields = {"name", "spec"}
    Admits <- Defined
    Shape <- Composed
    Values = {a}
    NameField = "name"
    NamespaceField = "name"
    NamespaceNeeded <- ClusterScoped
    Files = {f1, f2}
    Slots = {s1, s2}
    MaxSeq = 0
    TypeAhead = TRUE
    Null = Null
INVARIANTS
    TempFilesAreConsumed
