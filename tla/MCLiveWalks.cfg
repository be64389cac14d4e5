\* A listing or a backup beside two clients.
CONSTANTS
    Namespaces = {ns}
    Names = {p, dot}
    Hashes = {h1, h2}
    Clients = {c1, c2}
    Collectors = {}
    Operations = {"put", "delete"}
    NoHash = NoHash
    NoKey = NoKey
    Grace = 1
    MaxFinalize = 0
    MaxTime = 0
    Hidden = {dot}

SPECIFICATION WalkSpec
SYMMETRY Symmetry
INVARIANTS
    WalkTypeOK
    NothingStayedIsMissed
    ArchiveIsClosed
    WalkInv
