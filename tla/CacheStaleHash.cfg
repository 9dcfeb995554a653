\* A cluster that answers a superseded hash with the document it serves now.
SPECIFICATION Spec
CONSTANTS
    Fetches = {f1, f2}
    Groups = {"core", "apps"}
    Revisions = {r1, r2, r3}
    Hash <- Hashes
    NoHash = NoHash
    Segment <- Segments
    HonoursHash = FALSE
    Corrupt = Corrupt
    Refused = Refused
    None = None
    MaxMishaps = 2
SYMMETRY Interchangeable
INVARIANTS
    HitsAreHonest
