\* One collector, run again and again, beside two clients that owe nothing.
\* Liveness: no symmetry.
CONSTANTS
    Namespaces = {ns}
    Names = {p}
    Hashes = {h}
    Clients = {c1, c2}
    Collectors = {gc}
    Operations = {"put", "get", "delete", "drop"}
    NoHash = NoHash
    NoKey = NoKey
    Grace = 1
    MaxFinalize = 0
    MaxTime = 2

SPECIFICATION FairSpec
PROPERTIES
    OrphansAreReclaimed
    ImplementsMap
