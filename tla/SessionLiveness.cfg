\* Every wait ends, with every command eventually returning.
SPECIFICATION FairSpec
CONSTANTS
    Kinds = {"apps/v1", "apps/v1beta1"}
    PathOf <- Document
    Versions <- ServedVersions
    Fault <- Faulty
    Fields = {"name", "list"}
    Admits <- Defined
    Shape <- Composed
    Values = {a}
    NameField = "name"
    NamespaceField = "name"
    NamespaceNeeded <- ClusterScoped
    Files = {}
    Slots = {s1, s2}
    MaxSeq = 2
    TypeAhead = FALSE
    Null = Null
PROPERTIES
    LoadingEnds
    DryRunEnds
    QuitEnds
