CONSTANTS
    Tenants = {t1, t2}
    Contested = t1
    Users = {u1, u2}
    AskedStatuses = {"closed", "archived"}
SPECIFICATION Spec
SYMMETRY Symmetry
CHECK_DEADLOCK TRUE
INVARIANTS TypeOK AnswersStayInTenant InternalMeansFailure AnswerMatchesEffect UndisturbedMembersExact
PROPERTIES WritesAreAuthorized GatesBindLaterRequests
