\* Concurrent Sessions on one cache directory.
SPECIFICATION Spec
CONSTANTS
    Fetches = {f1, f2}
    Groups = {"core", "apps"}
    Revisions = {r1, r2, r3}
    Hash <- Hashes
    NoHash = NoHash
    Segment <- Segments
    HonoursHash = TRUE
    Corrupt = Corrupt
    Refused = Refused
    None = None
    MaxMishaps = 2
SYMMETRY Interchangeable
INVARIANTS
    HitsAreHonest
    LeftoversAreAccounted
    CacheInv
PROPERTIES
    PromiseKept
