-------------------------- MODULE MembershipWrites ---------------------------
(* The administrative writes of one owned tenant, statement by statement.

   Every RPC that writes tenant_memberships, event_roles, events or the tenant
   row is a process that runs the handler's SQL statements one at a time under
   READ COMMITTED: a statement sees what is committed when it runs, waits for
   the row locks it conflicts with, and its writes become visible when the
   transaction commits.  Locks are held to the end of the transaction.

   The tenant was claimed already (Onboarding models how) and is not deleted.
   An event's lifecycle is in EventLifecycle: here an event that exists may
   pass the status gate of writableEvent.                                     *)
EXTENDS Roles, RowLocks, FiniteSets

CONSTANTS
    Users,      \* user ids
    Events,     \* event ids
    Procs,      \* concurrent requests
    Ops,        \* the RPCs the requests of this instance call
    Plans,      \* contract plans
    DefaultPlan,\* the plan the tenant was registered with
    NoProc,     \* nobody holds the advisory lock
    NoEvent     \* the request names no event

AllOps == {"AddTenantMember", "ChangeTenantRole", "RevokeTenantRole",
           "GrantEventRole", "RevokeEventRole", "CreateEvent",
           "ArchiveTenant", "ChangeTenantContract"}

ASSUME ConstantsAssumption ==
    /\ Ops \subseteq AllOps
    /\ NoProc \notin Procs
    /\ NoEvent \notin Events
    /\ DefaultPlan \in Plans
    /\ IsFiniteSet(Users)

VARIABLES
    role,       \* tenant_memberships: the committed tenant role of each user
    eventRole,  \* event_roles: the committed event role, per event and user
    events,     \* events: the events that exist
    tenant,     \* the tenant row: archived and contract plan
    advisory,   \* holder of the tenant's advisory lock
    rowLock,    \* row locks on tenant_memberships
    tenantLock, \* row locks on the tenant row
    pc,         \* the next statement of each process
    req,        \* the request each process serves
    held,       \* the role CreateEvent read for its creator
    copy        \* the tenant row administerTenant read, and then changed

db    == <<role, eventRole, events, tenant>>
locks == <<advisory, rowLock, tenantLock>>
local == <<req, held, copy>>
vars  == <<db, locks, pc, local>>

TenantRows == [archived : BOOLEAN, plan : Plans]

Requests == [op : Ops, caller : Users, user : Users, role : RoleOrNone,
             event : Events \cup {NoEvent}]
NoReq    == [op |-> "none"]

\* The tenant row as it is registered, and in place of a copy not read yet.
NewTenant == [archived |-> FALSE, plan |-> DefaultPlan]

\* The RPCs that re-read the caller's permission inside their transaction, and
\* among them those of the relation side, which open with the advisory lock.
RelationOps    == {"ChangeTenantRole", "RevokeTenantRole", "GrantEventRole",
                   "RevokeEventRole"}
AdministerOps  == {"ArchiveTenant", "ChangeTenantContract"}
MembershipOps  == {"AddTenantMember", "ChangeTenantRole", "RevokeTenantRole"}

Steps == {"idle", "lock", "require", "keep", "count", "write", "insert", "fk",
          "tenant", "mutate", "creator", "insertEvent", "grantCreator",
          "commit"}

Owners == {u \in Users : role[u] = "owner"}

----------------------------------------------------------------------------
(* Ending a transaction, and moving on inside one *)

\* Mutant: the advisory lock is the session's and outlives the transaction.
EndKeepingAdvisory(p) ==
    /\ pc' = [pc EXCEPT ![p] = "idle"]
    /\ req' = [req EXCEPT ![p] = NoReq]
    /\ held' = [held EXCEPT ![p] = NoRole]
    /\ copy' = [copy EXCEPT ![p] = NewTenant]
    /\ rowLock' = [u \in Users |-> Released(rowLock[u], p)]
    /\ tenantLock' = Released(tenantLock, p)
    /\ UNCHANGED advisory

\* The end of RunInTransaction, either way: the locks go with the transaction.
End(p) ==
    /\ pc' = [pc EXCEPT ![p] = "idle"]
    /\ req' = [req EXCEPT ![p] = NoReq]
    /\ held' = [held EXCEPT ![p] = NoRole]
    /\ copy' = [copy EXCEPT ![p] = NewTenant]
    /\ advisory' = IF advisory = p THEN NoProc ELSE advisory
    /\ rowLock' = [u \in Users |-> Released(rowLock[u], p)]
    /\ tenantLock' = Released(tenantLock, p)

Goto(p, step) == pc' = [pc EXCEPT ![p] = step]

\* A membership row is there to be locked once its insert has committed; a
\* statement that finds no row does not wait for one.
RowBlockers(p, u, level) ==
    IF role[u] = NoRole THEN {} ELSE Blockers(rowLock[u], p, level)

RowFree(p, u, level) == RowBlockers(p, u, level) = {}

LockRow(p, u, level) == rowLock' = [rowLock EXCEPT ![u] = Granted(@, p, level)]

----------------------------------------------------------------------------
(* Arrival of a request: input validation and the gates read before the
   transaction begins *)

\* writableTenant: the gate reads the tenant outside any transaction.
WritableTenant == ~tenant.archived

\* writableEvent: the event exists and its tenant is writable.
WritableEvent(e) == e \in events /\ WritableTenant

FirstStep(op) ==
    CASE op = "AddTenantMember" -> "insert"
      [] op \in RelationOps     -> "lock"
      [] op = "CreateEvent"     -> "creator"
      [] op \in AdministerOps   -> "tenant"

Arrive(p, op, caller, user, r, e) ==
    /\ op \in Ops
    /\ pc[p] = "idle"
    /\ req' = [req EXCEPT ![p] = [op |-> op, caller |-> caller, user |-> user,
                                  role |-> r, event |-> e]]
    /\ Goto(p, FirstStep(op))
    /\ UNCHANGED <<db, locks, held, copy>>

AddTenantMember(p) ==
    /\ WritableTenant
    /\ \E u \in Users, r \in GrantableRoles :
          Arrive(p, "AddTenantMember", u, u, r, NoEvent)

ChangeTenantRole(p) ==
    /\ WritableTenant
    /\ \E c, u \in Users, r \in GrantableRoles :
          Arrive(p, "ChangeTenantRole", c, u, r, NoEvent)

RevokeTenantRole(p) ==
    /\ WritableTenant
    /\ \E c, u \in Users :
          Arrive(p, "RevokeTenantRole", c, u, NoRole, NoEvent)

GrantEventRole(p) ==
    \E c, u \in Users, r \in GrantableRoles, e \in Events :
       /\ WritableEvent(e)
       /\ Arrive(p, "GrantEventRole", c, u, r, e)

RevokeEventRole(p) ==
    \E c, u \in Users, e \in Events :
       /\ WritableEvent(e)
       /\ Arrive(p, "RevokeEventRole", c, u, NoRole, e)

\* The event's id is a fresh UUID.
CreateEvent(p) ==
    /\ WritableTenant
    /\ \E c \in Users, e \in Events \ events :
          /\ \A q \in Procs : pc[q] # "idle" => req[q].event # e
          /\ Arrive(p, "CreateEvent", c, c, NoRole, e)

\* administerTenant has no gate before its transaction.
AdministerTenant(p) ==
    \E op \in AdministerOps, c \in Users :
       Arrive(p, op, c, c, NoRole, NoEvent)

----------------------------------------------------------------------------
(* The relation side: withCurrentPermission and the writes it guards *)

\* Mutant: the transaction opens without the advisory lock.
LockNothing(p) ==
    /\ pc[p] = "lock"
    /\ Goto(p, "require")
    /\ UNCHANGED <<db, locks, local>>

LockTenantMemberships(p) ==
    /\ pc[p] = "lock"
    /\ advisory = NoProc
    /\ advisory' = p
    /\ Goto(p, "require")
    /\ UNCHANGED <<db, rowLock, tenantLock, local>>

\* Where the handler goes once the caller's permission is confirmed: a write
\* that takes an owner's role away first makes sure that another one is left.
AfterRequire(r) ==
    CASE r.op \in AdministerOps -> "mutate"
      [] r.op = "RevokeTenantRole" \/ (r.op = "ChangeTenantRole" /\ r.role # "owner")
           -> "keep"
      [] OTHER -> "write"

\* Mutant: the permission is read without FOR SHARE.
RequireWithoutLock(p) ==
    /\ pc[p] = "require"
    /\ RowFree(p, req[p].caller, Unlocked)
    /\ IF Grants(role[req[p].caller], ScopeTenantWrite)
         THEN /\ Goto(p, AfterRequire(req[p]))
              /\ UNCHANGED <<locks, local>>
         ELSE End(p)
    /\ UNCHANGED db

\* Authorizer.Require / Allowed: the caller's own role, read FOR SHARE.
Require(p) ==
    /\ pc[p] = "require"
    /\ RowFree(p, req[p].caller, Share)
    /\ IF Grants(role[req[p].caller], ScopeTenantWrite)
         THEN /\ LockRow(p, req[p].caller, Share)
              /\ Goto(p, AfterRequire(req[p]))
              /\ UNCHANGED <<advisory, tenantLock, local>>
         ELSE End(p)
    /\ UNCHANGED db

\* keepAnotherOwner, first statement: the target's role, read FOR SHARE.
KeepAnotherOwner(p) ==
    /\ pc[p] = "keep"
    /\ RowFree(p, req[p].user, Share)
    /\ IF role[req[p].user] = NoRole
         THEN UNCHANGED rowLock
         ELSE LockRow(p, req[p].user, Share)
    /\ Goto(p, IF role[req[p].user] = "owner" THEN "count" ELSE "write")
    /\ UNCHANGED <<db, advisory, tenantLock, local>>

\* Mutant: the count admits the removal of the only owner.
CountAnyOwner(p) ==
    /\ pc[p] = "count"
    /\ IF Cardinality(Owners) < 1
         THEN End(p)
         ELSE Goto(p, "write") /\ UNCHANGED <<locks, local>>
    /\ UNCHANGED db

\* keepAnotherOwner, second statement: ErrLastOwner unless two are left.
CountTenantOwners(p) ==
    /\ pc[p] = "count"
    /\ IF Cardinality(Owners) <= 1
         THEN End(p)
         ELSE Goto(p, "write") /\ UNCHANGED <<locks, local>>
    /\ UNCHANGED db

\* The lock each write takes on the target's membership row: an UPDATE of the
\* role, a DELETE, or the foreign key of a new event role.
WriteLevel(op) ==
    CASE op = "ChangeTenantRole" -> NoKeyUpdate
      [] op = "RevokeTenantRole" -> Update
      [] op = "GrantEventRole"   -> KeyShare

\* ChangeTenantRole, RevokeTenantMembership and GrantEventRole of the
\* repository: without a membership row the statement fails, and so does the
\* transaction.
WriteMembership(p) ==
    /\ pc[p] = "write"
    /\ req[p].op # "RevokeEventRole"
    /\ RowFree(p, req[p].user, WriteLevel(req[p].op))
    /\ IF role[req[p].user] = NoRole
         THEN End(p)
         ELSE /\ LockRow(p, req[p].user, WriteLevel(req[p].op))
              /\ Goto(p, "commit")
              /\ UNCHANGED <<advisory, tenantLock, local>>
    /\ UNCHANGED db

\* The repository's RevokeEventRole: ErrEventRoleNotFound if it deleted no row.
\* Event-role rows are written under the advisory lock, or by the CreateEvent
\* that creates their event, so the DELETE never waits.
DeleteEventRole(p) ==
    /\ pc[p] = "write"
    /\ req[p].op = "RevokeEventRole"
    /\ IF eventRole[req[p].event][req[p].user] = NoRole
         THEN End(p)
         ELSE Goto(p, "commit") /\ UNCHANGED <<locks, local>>
    /\ UNCHANGED db

----------------------------------------------------------------------------
(* AddTenantMember: one autocommitted INSERT *)

\* The primary key waits for a writer of the same row, then refuses a second.
InsertMembership(p) ==
    /\ pc[p] = "insert"
    /\ Blockers(rowLock[req[p].user], p, Share) = {}
    /\ IF role[req[p].user] # NoRole
         THEN End(p)
         ELSE /\ LockRow(p, req[p].user, Update)
              /\ Goto(p, "fk")
              /\ UNCHANGED <<advisory, tenantLock, local>>
    /\ UNCHANGED db

\* The foreign key to tenants, checked as the INSERT of a membership or of an
\* event ends: it waits for an open administerTenant.
CheckTenantKey(p) ==
    /\ pc[p] = "fk"
    /\ Blockers(tenantLock, p, KeyShare) = {}
    /\ tenantLock' = Granted(tenantLock, p, KeyShare)
    /\ Goto(p, IF req[p].op = "CreateEvent" THEN "grantCreator" ELSE "commit")
    /\ UNCHANGED <<db, advisory, rowLock, local>>

----------------------------------------------------------------------------
(* The tenant side: CreateEvent and administerTenant *)

\* Mutant: the creator's role is read without FOR SHARE.
ReadCreatorRoleWithoutLock(p) ==
    /\ pc[p] = "creator"
    /\ IF role[req[p].caller] = NoRole
         THEN End(p)
         ELSE /\ held' = [held EXCEPT ![p] = role[req[p].caller]]
              /\ Goto(p, "insertEvent")
              /\ UNCHANGED <<locks, req, copy>>
    /\ UNCHANGED db

\* CurrentRole: the creator's role, read FOR SHARE; only a member may create.
ReadCreatorRole(p) ==
    /\ pc[p] = "creator"
    /\ RowFree(p, req[p].caller, Share)
    /\ IF role[req[p].caller] = NoRole
         THEN End(p)
         ELSE /\ held' = [held EXCEPT ![p] = role[req[p].caller]]
              /\ LockRow(p, req[p].caller, Share)
              /\ Goto(p, "insertEvent")
              /\ UNCHANGED <<advisory, tenantLock, req, copy>>
    /\ UNCHANGED db

\* INSERT INTO events ... SELECT ... FROM tenants WHERE archived = FALSE: the
\* SELECT reads the tenant's committed row and does not lock it.
InsertEvent(p) ==
    /\ pc[p] = "insertEvent"
    /\ IF tenant.archived
         THEN End(p)
         ELSE Goto(p, "fk") /\ UNCHANGED <<locks, local>>
    /\ UNCHANGED db

\* The creator's event role; its foreign key needs the creator's membership.
GrantCreatorRole(p) ==
    /\ pc[p] = "grantCreator"
    /\ RowFree(p, req[p].caller, KeyShare)
    /\ IF role[req[p].caller] = NoRole
         THEN End(p)
         ELSE /\ LockRow(p, req[p].caller, KeyShare)
              /\ Goto(p, "commit")
              /\ UNCHANGED <<advisory, tenantLock, local>>
    /\ UNCHANGED db

\* Mutant: the tenant is read without FOR UPDATE.
FindTenantWithoutLock(p) ==
    /\ pc[p] = "tenant"
    /\ IF tenant.archived
         THEN End(p)
         ELSE /\ copy' = [copy EXCEPT ![p] = tenant]
              /\ Goto(p, "require")
              /\ UNCHANGED <<locks, req, held>>
    /\ UNCHANGED db

\* administerTenant loads the tenant FOR UPDATE and refuses an archived one.
FindTenantForUpdate(p) ==
    /\ pc[p] = "tenant"
    /\ Blockers(tenantLock, p, Update) = {}
    /\ IF tenant.archived
         THEN End(p)
         ELSE /\ copy' = [copy EXCEPT ![p] = tenant]
              /\ tenantLock' = Granted(tenantLock, p, Update)
              /\ Goto(p, "require")
              /\ UNCHANGED <<advisory, rowLock, req, held>>
    /\ UNCHANGED db

\* mutate and UpdateTenant: both columns are written back from the copy.
MutateTenant(p) ==
    /\ pc[p] = "mutate"
    /\ IF req[p].op = "ArchiveTenant"
         THEN copy' = [copy EXCEPT ![p] = [archived |-> TRUE, plan |-> copy[p].plan]]
         ELSE \E plan \in Plans :
                 copy' = [copy EXCEPT ![p] = [archived |-> copy[p].archived, plan |-> plan]]
    /\ Goto(p, "commit")
    /\ UNCHANGED <<db, locks, req, held>>

----------------------------------------------------------------------------
(* Commit and rollback *)

RolesAfter(r) ==
    IF r.op \in MembershipOps THEN [role EXCEPT ![r.user] = r.role] ELSE role

\* Mutant: deleting a membership leaves the user's event roles behind.
EventRolesWithoutCascade(r, creatorRole) ==
    CASE r.op \in {"GrantEventRole", "RevokeEventRole"} ->
           [eventRole EXCEPT ![r.event][r.user] = r.role]
      [] r.op = "CreateEvent" ->
           [eventRole EXCEPT ![r.event][r.caller] = creatorRole]
      [] OTHER -> eventRole

\* Deleting a membership cascades to the user's event roles.
EventRolesAfter(r, creatorRole) ==
    CASE r.op \in {"GrantEventRole", "RevokeEventRole"} ->
           [eventRole EXCEPT ![r.event][r.user] = r.role]
      [] r.op = "RevokeTenantRole" ->
           [e \in Events |-> [eventRole[e] EXCEPT ![r.user] = NoRole]]
      [] r.op = "CreateEvent" ->
           [eventRole EXCEPT ![r.event][r.caller] = creatorRole]
      [] OTHER -> eventRole

\* The transaction (or the autocommitted statement) commits.
Commit(p) ==
    /\ pc[p] = "commit"
    /\ role' = RolesAfter(req[p])
    /\ eventRole' = EventRolesAfter(req[p], held[p])
    /\ events' = IF req[p].op = "CreateEvent" THEN events \cup {req[p].event} ELSE events
    /\ tenant' = IF req[p].op \in AdministerOps THEN copy[p] ELSE tenant
    /\ End(p)

\* Any statement, or the commit itself, may fail: a lost connection, a cancelled
\* context, a server error.  RunInTransaction rolls the transaction back.
Rollback(p) ==
    /\ pc[p] # "idle"
    /\ End(p)
    /\ UNCHANGED db

----------------------------------------------------------------------------

NoLock == [p \in Procs |-> Unlocked]

Idle ==
    /\ advisory = NoProc
    /\ rowLock = [u \in Users |-> NoLock]
    /\ tenantLock = NoLock
    /\ pc = [p \in Procs |-> "idle"]
    /\ req = [p \in Procs |-> NoReq]
    /\ held = [p \in Procs |-> NoRole]
    /\ copy = [p \in Procs |-> NewTenant]

\* The tenant as ClaimTenantOwnership leaves it: one owner, no event.
Init ==
    /\ \E owner \in Users :
          role = [u \in Users |-> IF u = owner THEN "owner" ELSE NoRole]
    /\ eventRole = [e \in Events |-> [u \in Users |-> NoRole]]
    /\ events = {}
    /\ tenant = NewTenant
    /\ Idle

Arrival(p) ==
    \/ AddTenantMember(p) \/ ChangeTenantRole(p) \/ RevokeTenantRole(p)
    \/ GrantEventRole(p)  \/ RevokeEventRole(p)  \/ CreateEvent(p)
    \/ AdministerTenant(p)

Statement(p) ==
    \/ LockTenantMemberships(p) \/ Require(p) \/ KeepAnotherOwner(p)
    \/ CountTenantOwners(p) \/ WriteMembership(p) \/ DeleteEventRole(p)
    \/ InsertMembership(p) \/ CheckTenantKey(p)
    \/ ReadCreatorRole(p) \/ InsertEvent(p) \/ GrantCreatorRole(p)
    \/ FindTenantForUpdate(p) \/ MutateTenant(p)
    \/ Commit(p)

Next == \E p \in Procs : Arrival(p) \/ Statement(p) \/ Rollback(p)

Spec == Init /\ [][Next]_vars

----------------------------------------------------------------------------
(* Properties *)

TypeOK ==
    /\ role \in [Users -> RoleOrNone]
    /\ eventRole \in [Events -> [Users -> RoleOrNone]]
    /\ events \subseteq Events
    /\ tenant \in TenantRows
    /\ advisory \in Procs \cup {NoProc}
    /\ rowLock \in [Users -> [Procs -> LockLevels]]
    /\ tenantLock \in [Procs -> LockLevels]
    /\ pc \in [Procs -> Steps]
    /\ req \in [Procs -> Requests \cup {NoReq}]
    /\ held \in [Procs -> RoleOrNone]
    /\ copy \in [Procs -> TenantRows]

\* An owned tenant never loses its last owner, whichever revocations and
\* demotions run at once: keepAnotherOwner counts owners in one statement and
\* removes one in another, and nothing may change the count in between.
OwnerRemains == Owners # {}

\* README, current permission check: from the check to the commit, no revocation
\* or demotion of the caller comes in between, also for administerTenant, which
\* does not take the advisory lock.
PermissionHeldToCommit ==
    \A p \in Procs :
       /\ pc[p] \in {"keep", "count", "write", "mutate", "commit"}
       /\ req[p].op \in RelationOps \cup AdministerOps
       => Grants(role[req[p].caller], ScopeTenantWrite)

\* Nobody holds a role on an event without belonging to its tenant, although
\* memberships are revoked while event roles are being granted.
EventRoleNeedsMembership ==
    \A e \in Events, u \in Users :
       eventRole[e][u] # NoRole => role[u] # NoRole /\ e \in events

\* CreateEvent hands the creator the role the creator holds when it commits,
\* not the one held when the handler looked.
CreatorRoleCurrent ==
    \A p \in Procs :
       pc[p] = "commit" /\ req[p].op = "CreateEvent" => held[p] = role[req[p].caller]

\* UpdateTenant writes both columns back from a copy: still, an archived tenant
\* stays archived and no step reverts a column that another request changed.
NoLostTenantUpdate ==
    [][/\ tenant.archived => tenant' = tenant
       /\ tenant'.archived # tenant.archived => tenant'.plan = tenant.plan]_vars

\* The processes that the next statement of p waits for.
WaitsFor(p) ==
    CASE pc[p] = "lock"         -> {advisory} \ {NoProc}
      [] pc[p] = "require"      -> RowBlockers(p, req[p].caller, Share)
      [] pc[p] = "creator"      -> RowBlockers(p, req[p].caller, Share)
      [] pc[p] = "grantCreator" -> RowBlockers(p, req[p].caller, KeyShare)
      [] pc[p] = "keep"         -> RowBlockers(p, req[p].user, Share)
      [] pc[p] = "write" /\ req[p].op # "RevokeEventRole"
                                -> RowBlockers(p, req[p].user, WriteLevel(req[p].op))
      [] pc[p] = "insert"       -> Blockers(rowLock[req[p].user], p, Share)
      [] pc[p] = "fk"           -> Blockers(tenantLock, p, KeyShare)
      [] pc[p] = "tenant"       -> Blockers(tenantLock, p, Update)
      [] OTHER                  -> {}

\* README: administrators who revoke or demote each other at the same time do
\* not deadlock.  No set of requests waits only for its own members, whatever
\* the mix of membership writes, event creation and tenant administration.
NoLockCycle ==
    \A S \in (SUBSET Procs) \ {{}} : \E p \in S : WaitsFor(p) \cap S = {}

\* Each request takes effect atomically, at a moment at which its permission,
\* the remaining owner and the rows it needs are there, or not at all.
Ledger == INSTANCE MembershipLedger WITH call <- req
LedgerSpec == Ledger!Spec

\* "An archived tenant keeps its memberships frozen" (writableTenant).
FrozenOnceArchived ==
    [][tenant.archived => role' = role /\ eventRole' = eventRole]_vars

=============================================================================
