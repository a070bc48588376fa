CONSTANTS
    Tenants = {1, 2}
    Users = {u1, u2}
    Subdomains = {s1, s2}
    Procs = {p1, p2}
    TTL = 1
    MaxTime = 3
    NoProc = NoProc
    NoSubdomain = NoSubdomain
SPECIFICATION FairSpec
CHECK_DEADLOCK TRUE
INVARIANTS TypeOK OwnedByExactlyOne SubdomainsUnique
PROPERTIES SubdomainsPermanent SweptOnlyAfterDeadline RegistrySpec RegistrationsAndClaimsEnd
