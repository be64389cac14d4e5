\* Two requests at a time, two tokens: two lives of the namespace.
CONSTANTS
    Paths = {k}
    Tokens = {t1, t2}
    Grantable = {{"delete"}}
    Requests = {r1, r2}
    Unsettling = {"remove"}
    Root = Root
    Stranger = Stranger
    None = None

SPECIFICATION Spec
SYMMETRY Symmetry
INVARIANTS
    TypeOK
    NothingLeftBehind
    IInv
PROPERTY DecisionIsTimely
