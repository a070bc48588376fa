CONSTANTS
    Events = {e1, e2}
    Procs = {p1, p2, p3}
SPECIFICATION Spec
SYMMETRY Symmetry
CHECK_DEADLOCK TRUE
PROPERTY EventsFrozenOnceArchived
