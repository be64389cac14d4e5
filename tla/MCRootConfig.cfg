\* Two commands at a time, two tokens, two source directories, failures and power losses anywhere.
CONSTANTS
    Commands = {c1, c2}
    Roots = {t1, t2}
    Sources = {none, src}
    NoSource = none
    Absent = Absent
    None = None
SPECIFICATION Spec
SYMMETRY Symmetry
INVARIANTS
    TypeOK
    PrintedStays
    RevokedStays
    AlwaysARoot
    IInv
PROPERTY NoUpdateIsLost
