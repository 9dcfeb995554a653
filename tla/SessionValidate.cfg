\* Composing and the manual Validate, one key at a time.
SPECIFICATION Spec
CONSTANTS
    Kinds = {"apps/v1", "apps/v1beta1"}
    PathOf <- Document
    Versions <- ServedVersions
    Fault <- Faulty
    Fields = {"name", "namespace", "spec"}
    Admits <- Defined
    Shape <- Composed
    Values = {a}
    NameField = "name"
    NamespaceField = "namespace"
    NamespaceNeeded <- Namespaced
    Files = {f1}
    Slots = {s1, s2}
    MaxSeq = 4
    TypeAhead = FALSE
    Null = Null
SYMMETRY Symmetric
INVARIANTS
    TypeOK
    FindingsSpeakForDraft
    DryRunHasItsMetadata
    SessionInv
PROPERTIES
    ComposesAsPromised
