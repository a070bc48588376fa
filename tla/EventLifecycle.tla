---------------------------- MODULE EventLifecycle ---------------------------
(* The lifecycle of a tenant's events: CreateEvent, TransitionEventStatus and
   the ArchiveTenant that is to end both, statement by statement.

   TransitionEventStatus reads the event and later writes it back, outside any
   transaction; the statements that ask for an unarchived tenant read the
   tenant's row from their snapshot and do not lock it.  That the creator is a
   member, and the role it gets, are in MembershipWrites.                     *)
EXTENDS RowLocks, EventStatuses

CONSTANTS
    Events,
    Procs       \* concurrent requests

VARIABLES
    status,     \* committed status of each event, "absent" before it exists
    archived,   \* the tenant's archived flag
    tenantLock, \* row locks on the tenant row
    pc, req,    \* next statement and request of each process
    late        \* history: the requests that arrived once the tenant was archived

local == <<pc, req, late>>
vars  == <<status, archived, tenantLock, local>>

Requests == [op : {"create"}, event : Events]
              \cup [op : {"transition"}, event : Events, to : Statuses]
              \cup [op : {"archive"}]
NoReq    == [op |-> "none"]

Goto(p, step) == pc' = [pc EXCEPT ![p] = step]

Arrive(p, r, first) ==
    /\ pc[p] = "idle"
    /\ req' = [req EXCEPT ![p] = r]
    /\ late' = IF archived THEN late \cup {p} ELSE late
    /\ Goto(p, first)
    /\ UNCHANGED <<status, archived, tenantLock>>

End(p) ==
    /\ Goto(p, "idle")
    /\ req' = [req EXCEPT ![p] = NoReq]
    /\ late' = late \ {p}
    /\ tenantLock' = Released(tenantLock, p)

----------------------------------------------------------------------------
(* CreateEvent *)

\* resolveTenant and the archived gate; the id of the event is fresh.
CreateEvent(p) ==
    /\ ~archived
    /\ \E e \in Events :
          /\ status[e] = "absent"
          /\ \A q \in Procs : req[q] # [op |-> "create", event |-> e]
          /\ Arrive(p, [op |-> "create", event |-> e], "insert")

\* INSERT ... SELECT ... FROM tenants WHERE archived = FALSE: no row, no event.
InsertEvent(p) ==
    /\ pc[p] = "insert"
    /\ IF archived
         THEN End(p)
         ELSE Goto(p, "fk") /\ UNCHANGED <<req, late, tenantLock>>
    /\ UNCHANGED <<status, archived>>

\* The foreign key of the inserted row waits for an open ArchiveTenant.
CheckTenantKey(p) ==
    /\ pc[p] = "fk"
    /\ Blockers(tenantLock, p, KeyShare) = {}
    /\ tenantLock' = Granted(tenantLock, p, KeyShare)
    /\ Goto(p, "commit")
    /\ UNCHANGED <<status, archived, req, late>>

----------------------------------------------------------------------------
(* TransitionEventStatus *)

\* resolveEvent, and TransitionTo on the copy it read; the tenant's own gate is
\* left to the UPDATE.
TransitionEventStatus(p) ==
    \E e \in Events, to \in Statuses :
       /\ status[e] # "absent"
       /\ CanTransition(status[e], to)
       /\ Arrive(p, [op |-> "transition", event |-> e, to |-> to], "update")

\* Mutant: the UPDATE does not look at the tenant.
UpdateAnyEvent(p) ==
    /\ pc[p] = "update"
    /\ Goto(p, "commit")
    /\ UNCHANGED <<status, archived, req, late, tenantLock>>

\* UPDATE events ... FROM tenants WHERE ... archived = FALSE: the tenant is the
\* snapshot's, the status the row has by now is not asked for.  A second UPDATE
\* of the row waits after it took its snapshot, until the first one commits: its
\* wait is part of the time between this step and its Commit.
UpdateEvent(p) ==
    /\ pc[p] = "update"
    /\ IF archived
         THEN End(p)
         ELSE Goto(p, "commit") /\ UNCHANGED <<req, late, tenantLock>>
    /\ UNCHANGED <<status, archived>>

----------------------------------------------------------------------------
(* ArchiveTenant *)

ArchiveTenant(p) == Arrive(p, [op |-> "archive"], "tenant")

FindTenantForUpdate(p) ==
    /\ pc[p] = "tenant"
    /\ Blockers(tenantLock, p, Update) = {}
    /\ IF archived
         THEN End(p)
         ELSE /\ tenantLock' = Granted(tenantLock, p, Update)
              /\ Goto(p, "commit")
              /\ UNCHANGED <<req, late>>
    /\ UNCHANGED <<status, archived>>

----------------------------------------------------------------------------

\* Mutant: a new event is stored with its status left unspecified.
StatusUnspecified(r) == IF r.op = "create" THEN "unspecified" ELSE r.to

\* The status a committed request leaves its event in.
StatusAfter(r) == IF r.op = "create" THEN "draft" ELSE r.to

Commit(p) ==
    /\ pc[p] = "commit"
    /\ IF req[p].op = "archive"
         THEN archived' = TRUE /\ UNCHANGED status
         ELSE /\ status' = [status EXCEPT ![req[p].event] = StatusAfter(req[p])]
              /\ UNCHANGED archived
    /\ End(p)

Rollback(p) ==
    /\ pc[p] # "idle"
    /\ End(p)
    /\ UNCHANGED <<status, archived>>

Init ==
    /\ status = [e \in Events |-> "absent"]
    /\ archived = FALSE
    /\ tenantLock = [p \in Procs |-> Unlocked]
    /\ pc = [p \in Procs |-> "idle"]
    /\ req = [p \in Procs |-> NoReq]
    /\ late = {}

Arrival(p) == CreateEvent(p) \/ TransitionEventStatus(p) \/ ArchiveTenant(p)

Statement(p) ==
    \/ InsertEvent(p) \/ CheckTenantKey(p) \/ UpdateEvent(p)
    \/ FindTenantForUpdate(p) \/ Commit(p)

Next == \E p \in Procs : Arrival(p) \/ Statement(p) \/ Rollback(p)

Spec == Init /\ [][Next]_vars

----------------------------------------------------------------------------
(* Properties *)

TypeOK ==
    /\ status \in [Events -> Statuses \cup {"absent"}]
    /\ archived \in BOOLEAN
    /\ tenantLock \in [Procs -> LockLevels]
    /\ pc \in [Procs -> {"idle", "insert", "fk", "update", "tenant", "commit"}]
    /\ req \in [Procs -> Requests \cup {NoReq}]
    /\ late \subseteq Procs

\* Archiving binds every request that arrives after it: none of them changes
\* anything, although TransitionEventStatus does not check the tenant first.
ArchiveBindsLaterRequests == \A p \in late : pc[p] # "commit"

\* "Any other transition is failed_precondition" (tenant_management_spec.md).
LegalTransitionsOnly ==
    [][\A e \in Events :
          status'[e] = status[e] \/ status[e] = "absent"
             \/ CanTransition(status[e], status'[e])]_vars

\* "CreateEvent creates only in tenants that are not archived", and the events
\* of an archived tenant keep their status.
EventsFrozenOnceArchived == [][archived => status' = status]_vars
=============================================================================
