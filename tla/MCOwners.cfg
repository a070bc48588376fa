CONSTANTS
    Users = {u1, u2, u3}
    Events = {}
    Procs = {p1, p2, p3}
    Ops <- OwnerOps
    Plans = {"basic"}
    DefaultPlan = "basic"
    NoProc = NoProc
    NoEvent = NoEvent
SPECIFICATION Spec
SYMMETRY Symmetry
CHECK_DEADLOCK TRUE
INVARIANTS TypeOK OwnerRemains NoLockCycle
PROPERTY LedgerSpec
