-------------------------- MODULE MembershipLedger ---------------------------
(* What the administrative writes of one tenant promise, without statements,
   locks or transactions: a request is called, and takes effect in one atomic
   step that finds everything the handler checks true at that moment, or
   returns without any effect.  MembershipWrites implements this.             *)
EXTENDS Roles, FiniteSets

CONSTANTS Users, Events, Procs, Ops, Plans, DefaultPlan, NoEvent

VARIABLES
    role,       \* the tenant role of each user
    eventRole,  \* the event role, per event and user
    events,     \* the events that exist
    tenant,     \* archived and contract plan
    call        \* the request of each process

vars == <<role, eventRole, events, tenant, call>>

Requests == [op : Ops, caller : Users, user : Users, role : RoleOrNone,
             event : Events \cup {NoEvent}]
NoCall   == [op |-> "none"]

AdministerOps == {"ArchiveTenant", "ChangeTenantContract"}

Init ==
    /\ \E owner \in Users :
          role = [u \in Users |-> IF u = owner THEN "owner" ELSE NoRole]
    /\ eventRole = [e \in Events |-> [u \in Users |-> NoRole]]
    /\ events = {}
    /\ tenant = [archived |-> FALSE, plan |-> DefaultPlan]
    /\ call = [p \in Procs |-> NoCall]

\* The gate on an archived tenant is a promise about the call, not about the
\* moment of effect; archiving itself checks it at the moment of effect.
Call(p) ==
    /\ call[p] = NoCall
    /\ \E r \in Requests :
          /\ r.op \notin AdministerOps => ~tenant.archived
          /\ call' = [call EXCEPT ![p] = r]
    /\ UNCHANGED <<role, eventRole, events, tenant>>

Return(p) ==
    /\ call[p] # NoCall
    /\ call' = [call EXCEPT ![p] = NoCall]

MayAdminister(u) == Grants(role[u], ScopeTenantWrite)

\* Somebody owns the tenant even without u.
OwnedWithout(u) == \E v \in Users \ {u} : role[v] = "owner"

Add(r) ==
    /\ r.op = "AddTenantMember"
    /\ role[r.user] = NoRole
    /\ role' = [role EXCEPT ![r.user] = r.role]
    /\ UNCHANGED <<eventRole, events, tenant>>

Change(r) ==
    /\ r.op = "ChangeTenantRole"
    /\ MayAdminister(r.caller)
    /\ role[r.user] # NoRole
    /\ r.role = "owner" \/ OwnedWithout(r.user)
    /\ role' = [role EXCEPT ![r.user] = r.role]
    /\ UNCHANGED <<eventRole, events, tenant>>

Revoke(r) ==
    /\ r.op = "RevokeTenantRole"
    /\ MayAdminister(r.caller)
    /\ role[r.user] # NoRole
    /\ OwnedWithout(r.user)
    /\ role' = [role EXCEPT ![r.user] = NoRole]
    /\ eventRole' = [e \in Events |-> [eventRole[e] EXCEPT ![r.user] = NoRole]]
    /\ UNCHANGED <<events, tenant>>

GrantOnEvent(r) ==
    /\ r.op = "GrantEventRole"
    /\ MayAdminister(r.caller)
    /\ role[r.user] # NoRole
    /\ r.event \in events
    /\ eventRole' = [eventRole EXCEPT ![r.event][r.user] = r.role]
    /\ UNCHANGED <<role, events, tenant>>

RevokeOnEvent(r) ==
    /\ r.op = "RevokeEventRole"
    /\ MayAdminister(r.caller)
    /\ eventRole[r.event][r.user] # NoRole
    /\ eventRole' = [eventRole EXCEPT ![r.event][r.user] = NoRole]
    /\ UNCHANGED <<role, events, tenant>>

\* The creator, a member, holds on the new event the role held in the tenant.
Create(r) ==
    /\ r.op = "CreateEvent"
    /\ role[r.caller] # NoRole
    /\ r.event \notin events
    /\ events' = events \cup {r.event}
    /\ eventRole' = [eventRole EXCEPT ![r.event][r.caller] = role[r.caller]]
    /\ UNCHANGED <<role, tenant>>

\* One column of the tenant changes, and only while it is not archived.
Administer(r) ==
    /\ r.op \in AdministerOps
    /\ MayAdminister(r.caller)
    /\ ~tenant.archived
    /\ IF r.op = "ArchiveTenant"
         THEN tenant' = [archived |-> TRUE, plan |-> tenant.plan]
         ELSE \E plan \in Plans : tenant' = [archived |-> FALSE, plan |-> plan]
    /\ UNCHANGED <<role, eventRole, events>>

Effect(r) ==
    \/ Add(r) \/ Change(r) \/ Revoke(r) \/ GrantOnEvent(r)
    \/ RevokeOnEvent(r) \/ Create(r) \/ Administer(r)

Apply(p) == Return(p) /\ Effect(call[p])

Refuse(p) == Return(p) /\ UNCHANGED <<role, eventRole, events, tenant>>

Next == \E p \in Procs : Call(p) \/ Apply(p) \/ Refuse(p)

Spec == Init /\ [][Next]_vars
=============================================================================
