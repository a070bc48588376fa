CONSTANTS
    Users = {u1, u2}
    Events = {e1}
    Procs = {p1, p2}
    Ops <- FrozenOps
    Plans = {"basic"}
    DefaultPlan = "basic"
    NoProc = NoProc
    NoEvent = NoEvent
SPECIFICATION Spec
CHECK_DEADLOCK TRUE
PROPERTY FrozenOnceArchived
