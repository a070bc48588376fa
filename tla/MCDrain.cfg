CONSTANTS
    Users = {u1, u2}
    Events = {e1}
    Procs = {p1, p2, p3}
    Ops <- DrainOps
    Plans = {"basic"}
    DefaultPlan = "basic"
    NoProc = NoProc
    NoEvent = NoEvent
SPECIFICATION DrainSpec
CHECK_DEADLOCK TRUE
INVARIANT NoLockCycle
PROPERTY EveryRequestEnds
