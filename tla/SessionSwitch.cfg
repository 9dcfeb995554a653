\* Loading, leaving, switching and composing, one key at a time.
SPECIFICATION Spec
CONSTANTS
    Kinds = {"apps/v1", "apps/v1beta1", "apps/v2", "apps/v3", "daemon"}
    PathOf <- Document
    Versions <- ServedVersions
    Fault <- Faulty
    Fields = {"name", "spec", "labels"}
    Admits <- Defined
    Shape <- Composed
    Values = {a, b}
    NameField = "name"
    NamespaceField = "name"
    NamespaceNeeded <- ClusterScoped
    Files = {f1}
    Slots = {s1, s2}
    MaxSeq = 0
    TypeAhead = FALSE
    Null = Null
SYMMETRY Symmetric
INVARIANTS
    LoadingIsAwaited
    DeepLinkLandsAtHome
    ComposeFitsItsKind
    DropConfirmIsCurrent
    OneOverlay
    TempFilesAreConsumed
    ExitIsHonoured
PROPERTIES
    NoSilentLoss
