\* Keys typed ahead of a Validate request.
SPECIFICATION Spec
CONSTANTS
    Kinds = {"apps/v1"}
    PathOf <- Document
    Versions <- ServedVersions
    Fault <- Faulty
    Fields = {"name", "list"}
    Admits <- Defined
    Shape <- Composed
    Values = {a}
    NameField = "name"
    NamespaceField = "name"
    NamespaceNeeded <- ClusterScoped
    Files = {}
    Slots = {s1, s2}
    MaxSeq = 2
    TypeAhead = TRUE
    Null = Null
INVARIANTS
    FindingsSpeakForDraft
