\* An upload deduplicated against an old orphan while the collector runs.
CONSTANTS
    Namespaces = {ns}
    Names = {p}
    Hashes = {h}
    Clients = {c1, c2}
    Collectors = {gc}
    Operations = {"put", "delete"}
    NoHash = NoHash
    NoKey = NoKey
    Grace = 3
    MaxFinalize = 1
    MaxTime = 4

SPECIFICATION Spec
SYMMETRY Symmetry

INVARIANT NoDanglingAlias
