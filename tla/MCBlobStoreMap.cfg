\* Between collections: two clients, every operation, two namespaces of two objects.
CONSTANTS
    Namespaces = {n1, n2}
    Names = {p, q}
    Hashes = {h1, h2}
    Clients = {c1, c2}
    Collectors = {}
    Operations = {"put", "get", "delete", "drop"}
    NoHash = NoHash
    NoKey = NoKey
    Grace = 1
    MaxFinalize = 0
    MaxTime = 0

SPECIFICATION Spec
SYMMETRY Symmetry
INVARIANT NoDanglingAlias
PROPERTY ImplementsMap
