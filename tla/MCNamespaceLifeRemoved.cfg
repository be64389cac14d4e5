\* A removal whose alias cleanup fails.
CONSTANTS
    Paths = {k}
    Tokens = {t1, t2}
    Grantable = {{"read"}}
    Requests = {r1, r2}
    Unsettling = {}
    Root = Root
    Stranger = Stranger
    None = None

SPECIFICATION Spec
SYMMETRY Symmetry
INVARIANT RemovedIsGone
