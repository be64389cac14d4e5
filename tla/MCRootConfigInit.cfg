\* Two commands on a machine without a configuration.
CONSTANTS
    Commands = {c1, c2}
    Roots = {t1, t2}
    Sources = {none}
    NoSource = none
    Absent = Absent
    None = None
SPECIFICATION Spec
SYMMETRY Symmetry
PROPERTY InitCreatesTheFirst
