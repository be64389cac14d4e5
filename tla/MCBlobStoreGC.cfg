\* One collector beside two clients: uploads and deletes race with mark and sweep.
CONSTANTS
    Namespaces = {ns}
    Names = {p, q}
    Hashes = {h}
    Clients = {c1, c2}
    Collectors = {gc}
    Operations = {"put", "get", "delete", "drop"}
    NoHash = NoHash
    NoKey = NoKey
    Grace = 3
    MaxFinalize = 1
    MaxTime = 4

SPECIFICATION Spec
SYMMETRY Symmetry

INVARIANTS
    TypeOK
    GuardedAliasHasBlob
    FreshUploadKeepsBlob
    SweepIsThorough
    IInv
PROPERTIES
    RemovesOnlyAged
    ReadsServeWhatStays
