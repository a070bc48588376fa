----------------------------- MODULE Onboarding ------------------------------
(* StartTenantRegistration, its sweep of expired registrations, and
   ClaimTenantOwnership, statement by statement under READ COMMITTED.

   A registration runs two autocommitted statements, the DELETE of the sweep
   and the INSERT of the pending tenant; a claim runs in one transaction.  The
   one-time token of a tenant is named by the tenant it was issued for: the
   stored hash matches no other token, and no token at all once the claim
   columns are NULL.                                                          *)
EXTENDS Naturals, FiniteSets

CONSTANTS
    Tenants,     \* tenants in the order in which a sweep visits their rows
    Users,
    Subdomains,  \* names that ParseSubdomain accepts
    Procs,       \* concurrent requests
    TTL,         \* ownershipClaimTTL
    MaxTime,     \* bound on the clock
    NoProc, NoSubdomain

ASSUME OnboardingAssumption ==
    /\ Tenants \subseteq Nat
    /\ TTL \in Nat \ {0}
    /\ MaxTime \in Nat
    /\ NoProc \notin Procs
    /\ NoSubdomain \notin Subdomains

VARIABLES
    tenants,  \* committed rows of tenants
    owners,   \* committed owner memberships of each tenant
    rowLock,  \* holder of the exclusive lock on each tenant row
    clock,    \* s.now()
    pc,       \* the next statement of each process
    req,      \* the request each process serves
    now,      \* the time a registration read
    todo,     \* rows a sweep's DELETE has still to visit
    doomed    \* rows it has locked and deletes when the statement ends

local == <<pc, req, now, todo, doomed>>
vars  == <<tenants, owners, rowLock, clock, local>>

Absent == [state |-> "absent", expires |-> 0, subdomain |-> NoSubdomain]
Gone   == [Absent EXCEPT !.state = "gone"]

Rows == [state : {"absent", "pending", "owned", "gone"},
         expires : 0 .. MaxTime + TTL,
         subdomain : Subdomains \cup {NoSubdomain}]

Requests == [op : {"start"}, tenant : Tenants]
              \cup [op : {"claim"}, tenant : Tenants, token : Tenants,
                    user : Users, subdomain : Subdomains]
NoReq    == [op |-> "none"]

Goto(p, step) == pc' = [pc EXCEPT ![p] = step]

RowFree(p, t) == rowLock[t] \in {NoProc, p}

\* The end of a request: its locks go, and its locals with it.
End(p) ==
    /\ Goto(p, "idle")
    /\ req' = [req EXCEPT ![p] = NoReq]
    /\ now' = [now EXCEPT ![p] = 0]
    /\ todo' = [todo EXCEPT ![p] = {}]
    /\ doomed' = [doomed EXCEPT ![p] = {}]
    /\ rowLock' = [t \in Tenants |-> IF rowLock[t] = p THEN NoProc ELSE rowLock[t]]

----------------------------------------------------------------------------
(* StartTenantRegistration *)

\* Mutant: the deadline is taken for passed one moment too early.
ExpiredEarly(t, time) == tenants[t].expires <= time + 1

\* OwnershipClaim.Expired, and the sweep's ownership_claim_expires_at <= now
Expired(t, time) == tenants[t].expires <= time

\* Time is read once, before the sweep; the id of the new tenant is fresh.
StartTenantRegistration(p) ==
    /\ pc[p] = "idle"
    /\ \E t \in Tenants :
          /\ tenants[t] = Absent
          /\ \A q \in Procs : req[q] # [op |-> "start", tenant |-> t]
          /\ req' = [req EXCEPT ![p] = [op |-> "start", tenant |-> t]]
    /\ now' = [now EXCEPT ![p] = clock]
    /\ Goto(p, "sweep")
    /\ UNCHANGED <<tenants, owners, rowLock, clock, todo, doomed>>

\* The DELETE takes its snapshot: the rows its WHERE clause matches.
DeleteExpiredPendingTenants(p) ==
    /\ pc[p] = "sweep"
    /\ todo' = [todo EXCEPT ![p] = {t \in Tenants : /\ tenants[t].state = "pending"
                                                    /\ Expired(t, now[p])}]
    /\ Goto(p, "visit")
    /\ UNCHANGED <<tenants, owners, rowLock, clock, req, now, doomed>>

\* Mutant: a row that changed while the DELETE waited is deleted all the same.
VisitRowUnchecked(p) ==
    /\ pc[p] = "visit"
    /\ \E t \in todo[p] :
          /\ \A k \in todo[p] : t <= k
          /\ RowFree(p, t)
          /\ todo' = [todo EXCEPT ![p] = @ \ {t}]
          /\ rowLock' = [rowLock EXCEPT ![t] = p]
          /\ doomed' = [doomed EXCEPT ![p] = @ \cup {t}]
    /\ UNCHANGED <<tenants, owners, clock, pc, req, now>>

\* The DELETE visits a row: it waits for the row's lock and evaluates the WHERE
\* clause again on the row it then finds.
VisitRow(p) ==
    /\ pc[p] = "visit"
    /\ \E t \in todo[p] :
          /\ \A k \in todo[p] : t <= k
          /\ RowFree(p, t)
          /\ todo' = [todo EXCEPT ![p] = @ \ {t}]
          /\ IF tenants[t].state = "pending" /\ Expired(t, now[p])
               THEN /\ rowLock' = [rowLock EXCEPT ![t] = p]
                    /\ doomed' = [doomed EXCEPT ![p] = @ \cup {t}]
               ELSE UNCHANGED <<rowLock, doomed>>
    /\ UNCHANGED <<tenants, owners, clock, pc, req, now>>

\* The DELETE commits; memberships of a deleted tenant would go by cascade.
CommitSweep(p) ==
    /\ pc[p] = "visit"
    /\ todo[p] = {}
    /\ tenants' = [t \in Tenants |-> IF t \in doomed[p] THEN Gone ELSE tenants[t]]
    /\ owners' = [t \in Tenants |-> IF t \in doomed[p] THEN {} ELSE owners[t]]
    /\ rowLock' = [t \in Tenants |-> IF rowLock[t] = p THEN NoProc ELSE rowLock[t]]
    /\ doomed' = [doomed EXCEPT ![p] = {}]
    /\ Goto(p, "insert")
    /\ UNCHANGED <<clock, req, now, todo>>

\* Mutant: the deadline is stored in another unit than the one it is read in.
CreatePendingTenantInSeconds(p) ==
    /\ pc[p] = "insert"
    /\ tenants' = [tenants EXCEPT ![req[p].tenant] =
                     [state |-> "pending", expires |-> 60 * (now[p] + TTL),
                      subdomain |-> NoSubdomain]]
    /\ End(p)
    /\ UNCHANGED <<owners, clock>>

\* The INSERT commits with the deadline counted from the time read first.
CreatePendingTenant(p) ==
    /\ pc[p] = "insert"
    /\ tenants' = [tenants EXCEPT ![req[p].tenant] =
                     [state |-> "pending", expires |-> now[p] + TTL,
                      subdomain |-> NoSubdomain]]
    /\ End(p)
    /\ UNCHANGED <<owners, clock>>

----------------------------------------------------------------------------
(* ClaimTenantOwnership *)

ClaimTenantOwnership(p) ==
    /\ pc[p] = "idle"
    /\ \E t, token \in Tenants, u \in Users, s \in Subdomains :
          req' = [req EXCEPT ![p] = [op |-> "claim", tenant |-> t, token |-> token,
                                     user |-> u, subdomain |-> s]]
    /\ Goto(p, "find")
    /\ UNCHANGED <<tenants, owners, rowLock, clock, now, todo, doomed>>

Exists(t) == tenants[t].state \in {"pending", "owned"}

\* Mutant: the tenant is read without FOR UPDATE.
FindTenantWithoutLock(p) ==
    /\ pc[p] = "find"
    /\ IF Exists(req[p].tenant)
         THEN Goto(p, "verify") /\ UNCHANGED <<req, now, todo, doomed, rowLock>>
         ELSE End(p)
    /\ UNCHANGED <<tenants, owners, clock>>

\* FindTenantByPublicIDForUpdate: ErrTenantNotFound, or the row, locked.
FindTenantForUpdate(p) ==
    /\ pc[p] = "find"
    /\ IF Exists(req[p].tenant)
         THEN /\ RowFree(p, req[p].tenant)
              /\ rowLock' = [rowLock EXCEPT ![req[p].tenant] = p]
              /\ Goto(p, "verify")
              /\ UNCHANGED <<req, now, todo, doomed>>
         ELSE End(p)
    /\ UNCHANGED <<tenants, owners, clock>>

\* Mutant: a rejected claim returns without ending its transaction.
VerifyClaimLeaking(p) ==
    LET t == req[p].tenant IN
    /\ pc[p] = "verify"
    /\ IF tenants[t].state = "pending" /\ ~Expired(t, clock) /\ req[p].token = t
         THEN Goto(p, "addOwner") /\ UNCHANGED req
         ELSE Goto(p, "idle") /\ req' = [req EXCEPT ![p] = NoReq]
    /\ UNCHANGED <<tenants, owners, rowLock, clock, now, todo, doomed>>

\* The verdict, on the locked row and the time read under the lock.
VerifyClaim(p) ==
    LET t == req[p].tenant IN
    /\ pc[p] = "verify"
    /\ IF tenants[t].state = "pending" /\ ~Expired(t, clock) /\ req[p].token = t
         THEN Goto(p, "addOwner") /\ UNCHANGED <<req, now, todo, doomed, rowLock>>
         ELSE End(p)
    /\ UNCHANGED <<tenants, owners, clock>>

\* Mutant: the owner's membership is written outside the transaction.
AddOwnerAutocommitted(p) ==
    /\ pc[p] = "addOwner"
    /\ owners' = [owners EXCEPT ![req[p].tenant] = @ \cup {req[p].user}]
    /\ Goto(p, "mark")
    /\ UNCHANGED <<tenants, rowLock, clock, req, now, todo, doomed>>

\* The membership INSERT: a user who is a member already violates its key.
AddOwner(p) ==
    /\ pc[p] = "addOwner"
    /\ IF req[p].user \in owners[req[p].tenant]
         THEN End(p)
         ELSE Goto(p, "mark") /\ UNCHANGED <<req, now, todo, doomed, rowLock>>
    /\ UNCHANGED <<tenants, owners, clock>>

\* Mutant: nothing keeps a subdomain name unique.
MarkTenantOwnedUnchecked(p) ==
    /\ pc[p] = "mark"
    /\ Goto(p, "commit")
    /\ UNCHANGED <<tenants, owners, rowLock, clock, req, now, todo, doomed>>

\* The unique key of subdomain waits for an open transaction that wrote the same
\* name and fails if the name is taken; the WHERE clause asks for pending_owner.
MarkTenantOwned(p) ==
    /\ pc[p] = "mark"
    /\ RowFree(p, req[p].tenant)
    /\ \A q \in Procs \ {p} :
          pc[q] = "commit" => req[q].subdomain # req[p].subdomain
    /\ IF \/ \E t \in Tenants : tenants[t].subdomain = req[p].subdomain
          \/ tenants[req[p].tenant].state # "pending"
         THEN End(p)
         ELSE /\ rowLock' = [rowLock EXCEPT ![req[p].tenant] = p]
              /\ Goto(p, "commit")
              /\ UNCHANGED <<req, now, todo, doomed>>
    /\ UNCHANGED <<tenants, owners, clock>>

\* The owner, the state, the subdomain and the consumed token become visible
\* together.
CommitClaim(p) ==
    /\ pc[p] = "commit"
    /\ tenants' = [tenants EXCEPT ![req[p].tenant] =
                     [state |-> "owned", expires |-> 0, subdomain |-> req[p].subdomain]]
    /\ owners' = [owners EXCEPT ![req[p].tenant] = @ \cup {req[p].user}]
    /\ End(p)
    /\ UNCHANGED clock

\* A statement or a commit fails, or the server stops: what was not committed
\* is undone.  A registration that fails after its sweep leaves the sweep done.
Abort(p) ==
    /\ pc[p] # "idle"
    /\ End(p)
    /\ UNCHANGED <<tenants, owners, clock>>

----------------------------------------------------------------------------

Tick ==
    /\ clock < MaxTime
    /\ clock' = clock + 1
    /\ UNCHANGED <<tenants, owners, rowLock, local>>

Init ==
    /\ tenants = [t \in Tenants |-> Absent]
    /\ owners = [t \in Tenants |-> {}]
    /\ rowLock = [t \in Tenants |-> NoProc]
    /\ clock = 0
    /\ pc = [p \in Procs |-> "idle"]
    /\ req = [p \in Procs |-> NoReq]
    /\ now = [p \in Procs |-> 0]
    /\ todo = [p \in Procs |-> {}]
    /\ doomed = [p \in Procs |-> {}]

Arrival(p) == StartTenantRegistration(p) \/ ClaimTenantOwnership(p)

Statement(p) ==
    \/ DeleteExpiredPendingTenants(p) \/ VisitRow(p) \/ CommitSweep(p)
    \/ CreatePendingTenant(p)
    \/ FindTenantForUpdate(p) \/ VerifyClaim(p) \/ AddOwner(p)
    \/ MarkTenantOwned(p) \/ CommitClaim(p)

Next == Tick \/ \E p \in Procs : Arrival(p) \/ Statement(p) \/ Abort(p)

\* Under fairness the database keeps executing statements that wait for nobody,
\* and a lock that becomes free again and again goes to whoever waits for it.
Fairness == \A p \in Procs : SF_vars(Statement(p))

Spec     == Init /\ [][Next]_vars
FairSpec == Spec /\ Fairness

----------------------------------------------------------------------------
(* Properties *)

Steps == {"idle", "sweep", "visit", "insert", "find", "verify", "addOwner",
          "mark", "commit"}

TypeOK ==
    /\ tenants \in [Tenants -> Rows]
    /\ owners \in [Tenants -> SUBSET Users]
    /\ rowLock \in [Tenants -> Procs \cup {NoProc}]
    /\ clock \in 0 .. MaxTime
    /\ pc \in [Procs -> Steps]
    /\ req \in [Procs -> Requests \cup {NoReq}]
    /\ now \in [Procs -> 0 .. MaxTime]
    /\ todo \in [Procs -> SUBSET Tenants]
    /\ doomed \in [Procs -> SUBSET Tenants]

\* ClaimTenantOwnership: a tenant is owned exactly when one user owns it.  Two
\* claims of one tenant never both succeed, and a claim that fails half-way, or
\* on a taken subdomain, leaves no owner behind and the token usable.
OwnedByExactlyOne ==
    \A t \in Tenants :
       Cardinality(owners[t]) = IF tenants[t].state = "owned" THEN 1 ELSE 0

\* ResolveTenantSubdomain
ResolveTenantSubdomain(s) == {t \in Tenants : tenants[t].subdomain = s}

\* A subdomain names at most one tenant, also when claims for it race.
SubdomainsUnique == \A s \in Subdomains : Cardinality(ResolveTenantSubdomain(s)) <= 1

\* A subdomain, once it names a tenant, names it for ever (owned tenants are
\* never deleted, and a name never moves), whatever a sweep waited for.
SubdomainsPermanent ==
    [][\A s \in Subdomains :
          ResolveTenantSubdomain(s) # {} =>
             ResolveTenantSubdomain(s)' = ResolveTenantSubdomain(s)]_vars

\* The deadline handed out with the token is kept: a sweep, which decides on the
\* time its request read and on rows it may have had to wait for, removes a
\* tenant only if it is still pending and its deadline has passed.
SweptOnlyAfterDeadline ==
    [][\A t \in Tenants :
          Exists(t) /\ tenants'[t] = Gone =>
             tenants[t].state = "pending" /\ tenants[t].expires <= clock]_vars

\* Registration, claim and sweep look atomic from outside.
Registry == INSTANCE TenantRegistry
RegistrySpec == Registry!Spec

\* Every registration and every claim ends.
RegistrationsAndClaimsEnd == \A p \in Procs : pc[p] # "idle" ~> pc[p] = "idle"
=============================================================================
