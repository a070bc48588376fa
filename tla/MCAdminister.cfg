CONSTANTS
    Users = {u1, u2}
    Events = {e1}
    Procs = {p1, p2}
    Ops <- AllOps
    Plans = {"basic", "pro"}
    DefaultPlan = "basic"
    NoProc = NoProc
    NoEvent = NoEvent
SPECIFICATION Spec
SYMMETRY Symmetry
CHECK_DEADLOCK TRUE
INVARIANTS OwnerRemains PermissionHeldToCommit EventRoleNeedsMembership CreatorRoleCurrent
PROPERTIES NoLostTenantUpdate LedgerSpec
