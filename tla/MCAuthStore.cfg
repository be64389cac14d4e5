\* Two namespaces, two tokens, both settings; failures and crashes at every step.
CONSTANTS
    Names = {n1, n2}
    Tokens = {t1, t2}
    Indexes = {default, other}
    Default = default
    MaxUnsettled = 4
    None = None

SPECIFICATION Spec
SYMMETRY Symmetry
INVARIANTS
    TypeOK
    Loadable
    RevokedStaysRevoked
    IssuedSurvives
    RestartIsTransparent
    IInv
PROPERTY ImplementsTable
