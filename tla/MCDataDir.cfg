\* Two requests and a restoration, kills and power losses; gc takes its turns.
CONSTANTS
    Controls = {ctl}
    Hashes = {h1}
    Keys = {k1}
    Clients = {c1, c2}
    Archive <- MCArchive
    None = None
    Torn = Torn

SPECIFICATION Spec
SYMMETRY Symmetry
INVARIANTS
    TypeOK
    ControlIsWhole
    TornIsRepaired
    RestoredMeansComplete
    AliasOutlivesNoBlob
    IInv
