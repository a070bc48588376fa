CONSTANTS
    Users = {u1, u2, u3}
    Invites = {i1}
    Procs = {p1, p2, p3}
    TTL = 2
    MaxTime = 3
    NoProc = NoProc
    NoUser = NoUser
SPECIFICATION Spec
SYMMETRY Symmetry
CHECK_DEADLOCK TRUE
INVARIANTS TypeOK AdmitsOnce InviterMayWrite
PROPERTIES SpentOnlyByJoining ClosedForGood
