--------------------------- MODULE RequestBoundary ---------------------------
(* One request from the wire to its answer: interceptor, conversion of the
   message, validation, tenant boundary, gates, statements, error code and
   response.  It covers the eighteen RPCs of the two services and the HTTP
   read.  The writes of everybody else are atomic steps on the database, which
   is what MembershipLedger and TenantRegistry establish about them.

   A tenant has at most one event here, named like the tenant, and its
   subdomain is named like the tenant too.  Other requests act on the contested
   tenant only; the rest of the database is what an answer must not show.     *)
EXTENDS AccessControl, ErrorCodes, EventStatuses, TLC

CONSTANTS
    Tenants,
    Contested,       \* the tenant the tokens are issued for
    Users,
    AskedStatuses    \* bound: the statuses a transition asks for

\* An id is never empty.
ASSUME BoundaryAssumption ==
    /\ Contested \in Tenants /\ AskedStatuses \subseteq Statuses
    /\ Blank \notin Tenants \cup Users

VARIABLES
    db,         \* the committed rows
    stage,      \* the statement the request is at
    req,        \* the request
    seen,       \* what an earlier statement read
    answer,     \* the response, once there is one
    locked,     \* members whose row the request's transaction has locked
    fate,       \* history: was a change applied, did the database fail
    disturbed,  \* history: members others wrote since the listing began
    late        \* history: the target has been archived since the request came

vars == <<db, stage, req, seen, answer, locked, fate, disturbed, late>>

Named == Tenants \cup {Blank}
Asked == Users \cup {Blank}
Texts == {Blank, "given", "overlong"}
Plans == {"first", "second"}

TenantStates     == {"absent", "pending", "owned", "archived"}
InvitationStates == {"none", "open", "closed"}

Databases ==
    [tenant : [Tenants -> TenantStates], plan : [Tenants -> Plans],
     role : [Tenants -> [Users -> RoleOrNone]],
     event : [Tenants -> Statuses \cup {"absent"}],
     eventRole : [Tenants -> [Users -> RoleOrNone]],
     invitation : [Tenants -> InvitationStates]]

Empty ==
    [proc |-> "none", http |-> FALSE, token |-> NoToken, bound |-> Blank,
     tenant |-> Blank, event |-> Blank, user |-> Blank, role |-> "ROLE_UNSPECIFIED",
     text |-> Blank, plan |-> Blank, secret |-> Blank, subdomain |-> Blank,
     to |-> "EVENT_STATUS_UNSPECIFIED", all |-> FALSE]

NoAnswer == [code |-> "none", body |-> {}]
NoFate   == [applied |-> FALSE, failed |-> FALSE]

Tokens == {TenantAccess(u, Contested, r) : u \in Users, r \in GrantableRoles}
             \cup {Registration(u) : u \in Users}
             \cup {Service(Contested), Service(Blank), NoToken}

\* The scope and the filter are oneofs: the message holds one of the two ids.
RevokeRoleRequest ==
    {m \in [tenant : Named, event : Named, user : Asked] : Blank \in {m.tenant, m.event}}

ListMembershipsRequest ==
    {m \in [tenant : Named, user : Asked] : Blank \in {m.tenant, m.user}}

\* The messages the enumerated callers send.
RelationMessages(p) ==
    LET roles == WireRoles \cup {UnknownNumber} IN
    CASE p = "CreateTenantInvitation" -> [tenant : Named, role : roles, text : Texts]
      [] p = "ListTenantInvitations"  -> [tenant : Named]
      [] p = "RevokeTenantInvitation" -> [tenant : Named, secret : {Blank, "right", "wrong"}]
      [] p = "AcceptTenantInvitation" -> [tenant : Named, secret : {Blank, "right", "wrong"}]
      [] p = "AddTenantMember"  -> [tenant : Named, user : Asked, role : roles, text : Texts]
      [] p = "ChangeTenantRole" -> [tenant : Named, user : Asked, role : roles]
      [] p = "GrantEventRole"   -> [event : Named, user : Asked, role : roles]
      [] p = "RevokeRole"       -> RevokeRoleRequest
      [] p = "ListMemberships"  -> ListMembershipsRequest

TenantMessages(p) ==
    CASE p = "StartTenantRegistration" -> [text : {Blank, "given"}, plan : {Blank, "first"}]
      [] p = "ClaimTenantOwnership"    ->
            [tenant : Named, secret : {Blank, "right", "wrong"},
             subdomain : Tenants \cup {"invalid"}, text : Texts]
      [] p = "ResolveTenantSubdomain"  -> [subdomain : Named]
      [] p = "ChangeTenantContract"    -> [tenant : Named, plan : {Blank, "second"}]
      [] p = "ArchiveTenant"           -> [tenant : Named]
      [] p = "CreateEvent"             -> [tenant : Named, text : {Blank, "given"}]
      [] p = "TransitionEventStatus"   ->
            [event : Named, to : {eventStatusProto(s) : s \in AskedStatuses}
                                   \cup {UnknownNumber}]
      [] p = "GetEvent"                -> [event : Named]
      [] p = "ListEvents"              -> [tenant : Named, all : BOOLEAN]

----------------------------------------------------------------------------
(* From the message to the input of the use case, and back *)

\* A field that the message does not have is left empty.
Input(p, token, message) ==
    [[f \in DOMAIN Empty |-> IF f \in DOMAIN message THEN message[f] ELSE Empty[f]]
        EXCEPT !.proc = p, !.token = token]

RelationInput(p, token, message) ==
    [Input(p, token, message) EXCEPT !.role = roleDomain(@)]

TenantInput(p, token, message) ==
    [Input(p, token, message) EXCEPT !.to = eventStatusDomain(@)]

membershipProto(t, u, role, eventRole) ==
    [userId |-> u, tenantId |-> t, tenantRole |-> roleProto(role),
     eventRoles |-> IF eventRole = NoRole THEN {} ELSE {<<t, roleProto(eventRole)>>}]

\* The HTTP API writes the names of the roles.
membershipsBody(t, u, role, eventRole) ==
    [userId |-> u, tenantId |-> t, tenantRole |-> role,
     eventRoles |-> IF eventRole = NoRole THEN {} ELSE {<<t, eventRole>>}]

MembershipOf(r, t, u, role, eventRole) ==
    IF r.http THEN membershipsBody(t, u, role, eventRole)
              ELSE membershipProto(t, u, role, eventRole)

tenantProto(d, t) ==
    [tenantId |-> t, archived |-> d.tenant[t] = "archived",
     ownershipState |-> tenantOwnershipStateProto(
        IF d.tenant[t] = "archived" THEN "owned" ELSE d.tenant[t])]

eventProto(d, t) == [tenantId |-> t, status |-> eventStatusProto(d.event[t])]

invitationProto(t) == [tenantId |-> t, tenantRole |-> roleProto("staff")]

RelationCode(err) == For(RelationClientErrors, err)
TenantCode(err)   == For(TenantClientErrors, err)

CodeOf(r, err) ==
    CASE r.http -> WriteError(err)
      [] ~r.http /\ r.proc \in RelationProcedures -> RelationCode(err)
      [] ~r.http /\ r.proc \in TenantProcedures   -> TenantCode(err)

\* The handler returns and its transaction, if any, has ended.
Respond(code, body, r) ==
    /\ stage' = "answered"
    /\ answer' = [code |-> code, body |-> body]
    /\ req' = r
    /\ seen' = Blank
    /\ locked' = {}
    /\ late' = FALSE

Answer(r, body) == Respond("ok", body, r)

\* Which request it was that failed is forgotten, unless it left a change.
Reject(r, err) == Respond(CodeOf(r, err), {}, IF fate.applied THEN r ELSE Empty)

Goto(next, r, value) ==
    /\ stage' = next
    /\ req' = r
    /\ seen' = value
    /\ UNCHANGED <<answer, late>>

----------------------------------------------------------------------------
(* The checks of the use cases that need no row, in the order of the code *)

UserGiven(r) == FailIf(r.user = Blank, "ErrUserIDRequired")

Grantable(r) ==
    FailIf(r.role = NoRole, "ErrRoleRequired")
      ++ FailIf(r.role \notin GrantableRoles, "ErrRoleReserved")

Invitable(r) == FailIf(r.role \notin InvitableRoles, "ErrRoleNotInvitable")

ParseDisplayName(r) ==
    FailIf(r.text = Blank, "ErrDisplayNameRequired")
      ++ FailIf(r.text = "overlong", "ErrDisplayNameTooLong")

SubjectGiven(r) == FailIf(SubjectFromContext(r) = Blank, "ErrSubjectMissing")

TenantGiven(r) == FailIf(r.tenant = Blank, "ErrTenantIDRequired")
EventGiven(r)  == FailIf(r.event = Blank, "ErrEventIDRequired")

\* Up to the first statement of resolveTenant and administerTenant.
InTenant(r) == TenantGiven(r) ++ Ensure(r, r.tenant)

RelationChecks(r) ==
    CASE r.proc = "AddTenantMember" ->
            UserGiven(r) ++ Grantable(r) ++ ParseDisplayName(r) ++ InTenant(r)
      [] r.proc = "ChangeTenantRole" -> UserGiven(r) ++ Grantable(r) ++ InTenant(r)
      [] r.proc = "GrantEventRole"   -> UserGiven(r) ++ Grantable(r) ++ EventGiven(r)
      [] r.proc = "RevokeRole" ->
            UserGiven(r) ++
            (CASE r.tenant # Blank /\ r.event # Blank -> {"ErrScopeAmbiguous"}
               [] r.tenant # Blank /\ r.event = Blank -> InTenant(r)
               [] r.tenant = Blank /\ r.event # Blank -> NoError
               [] OTHER -> {"ErrScopeRequired"})
      [] r.proc = "ListMemberships" ->
            (CASE r.tenant # Blank /\ r.user # Blank -> {"ErrFilterAmbiguous"}
               [] r.tenant # Blank /\ r.user = Blank -> InTenant(r)
               [] r.tenant = Blank /\ r.user # Blank ->
                     FailIf(TenantPublicIDFromContext(r) = Blank, "ErrMissing")
               [] OTHER -> {"ErrFilterRequired"})
      [] r.proc = "CreateTenantInvitation" ->
            Invitable(r) ++ ParseDisplayName(r) ++ InTenant(r)
      [] r.proc = "ListTenantInvitations" -> InTenant(r)
      [] r.proc = "RevokeTenantInvitation" ->
            FailIf(r.secret = Blank, "ErrInvitationIDRequired") ++ InTenant(r)
      [] r.proc = "AcceptTenantInvitation" ->
            TenantGiven(r) ++ FailIf(r.secret = Blank, "ErrInvitationTokenRequired")
              ++ SubjectGiven(r)

TenantChecks(r) ==
    CASE r.proc = "StartTenantRegistration" ->
            FailIf(r.text = Blank, "ErrTenantNameRequired")
              ++ FailIf(r.plan = Blank, "ErrTenantContractPlanRequired")
      [] r.proc = "ClaimTenantOwnership" ->
            TenantGiven(r) ++ FailIf(r.secret = Blank, "ErrOwnershipClaimTokenRequired")
              ++ FailIf(r.subdomain = "invalid", "ErrInvalidSubdomain")
              ++ ParseDisplayName(r) ++ SubjectGiven(r)
      [] r.proc = "ResolveTenantSubdomain" ->
            FailIf(r.subdomain = Blank, "ErrSubdomainRequired")
      [] r.proc = "ChangeTenantContract" ->
            FailIf(r.plan = Blank, "ErrTenantContractPlanRequired") ++ InTenant(r)
      [] r.proc = "ArchiveTenant" -> InTenant(r)
      [] r.proc = "CreateEvent" ->
            FailIf(r.text = Blank, "ErrEventNameRequired") ++ InTenant(r)
      [] r.proc = "TransitionEventStatus" ->
            EventGiven(r) ++ FailIf(r.to = "unspecified", "ErrEventStatusRequired")
      [] r.proc = "GetEvent"   -> EventGiven(r)
      [] r.proc = "ListEvents" -> InTenant(r)

----------------------------------------------------------------------------
(* Arrival *)

Target(r) == IF r.event # Blank THEN r.event ELSE r.tenant

\* The target refuses the writes of r: its tenant is archived, or the event
\* whose roles it would change.
Closed(d, r) ==
    /\ Target(r) \in Tenants
    /\ \/ d.tenant[Target(r)] = "archived"
       \/ /\ r.proc \in {"GrantEventRole", "RevokeRole"}
          /\ r.event # Blank
          /\ d.event[r.event] = "archived"

FirstStage(r) ==
    CASE r.event # Blank -> "event"
      [] r.proc = "ResolveTenantSubdomain" -> "read"
      [] r.proc \in {"StartTenantRegistration", "ClaimTenantOwnership",
                     "ChangeTenantContract", "ArchiveTenant"} -> "write"
      [] OTHER -> "tenant"

\* Bound: the names of a new tenant and of a new event are the contested ones.
Fresh(r) ==
    /\ r.proc = "StartTenantRegistration" => db.tenant[Contested] = "absent"
    /\ r.proc = "CreateEvent" => db.event[Contested] = "absent"

\* A refused call is answered before anything is read.
Refuse(code) ==
    /\ Respond(code, {}, Empty)
    /\ UNCHANGED <<db, fate, disturbed>>

Serve(r, failure) ==
    IF failure # NoError
      THEN Refuse(CodeOf(r, failure))
      ELSE /\ Fresh(r)
           /\ stage' = FirstStage(r)
           /\ req' = r
           /\ late' = Closed(db, r)
           /\ UNCHANGED <<db, seen, answer, locked, fate, disturbed>>

\* The user filter is answered within the tenant of the context.
InContext(r) ==
    IF r.proc = "ListMemberships" /\ r.tenant = Blank
      THEN [r EXCEPT !.tenant = TenantPublicIDFromContext(r)] ELSE r

ReceiveRelation(p, token) ==
    /\ stage = "idle"
    /\ LET code == Admit(RelationAdminServicePolicies[p], token) IN
       IF code # "ok"
         THEN Refuse(code)
         ELSE \E message \in RelationMessages(p) :
                 LET r == RelationInput(p, token, message)
                 IN  Serve(InContext(r), RelationChecks(r))

ReceiveTenant(p, token) ==
    /\ stage = "idle"
    /\ LET code == Admit(TenantServicePolicies[p], token) IN
       IF code # "ok"
         THEN Refuse(code)
         ELSE \E message \in TenantMessages(p) :
                 LET r == TenantInput(p, Claims(TenantServicePolicies[p], token), message)
                 IN  Serve(r, TenantChecks(r))

\* A call of a procedure that is not public, whose token's signing key cannot
\* be fetched.
ReceiveUnverifiable(token) ==
    /\ stage = "idle"
    /\ token # NoToken
    /\ Refuse("unavailable")

\* GET /tenants/{tenant_id}/users/{user_id}/memberships: no token, the tenant
\* of the path is bound to the context and the user is the filter.
ReceiveHttp(tenant, user) ==
    /\ stage = "idle"
    /\ LET r == WithTenantPublicID([Empty EXCEPT !.proc = "ListMemberships",
                                     !.http = TRUE, !.user = user], tenant) IN
       IF Blank \in {tenant, user}
         THEN Refuse("invalid_argument")
         ELSE Serve(InContext(r), RelationChecks(r))

----------------------------------------------------------------------------
(* The gates: statements before the write *)

Writable(d, t) ==
    FailIf(d.tenant[t] = "pending", "ErrTenantPendingOwner")
      ++ FailIf(d.tenant[t] = "archived", "ErrTenantArchived")

\* Mutant: writableEvent leaves the event's own status out.
EventGateWithoutStatus(r) ==
    FailIf(db.event[r.event] = "absent", "tenantrepository.ErrEventNotFound")
      ++ VerifyOwnership(r, r.event) ++ Ensure(r, r.event)
      ++ (IF r.proc = "TransitionEventStatus"
            THEN FailIf(~CanTransition(db.event[r.event], r.to),
                        "ErrInvalidEventStatusTransition")
            ELSE NoError)

\* FindEventByPublicID, then what resolveEvent, writableEvent and
\* TransitionTo ask of the event.
EventGate(r) ==
    FailIf(db.event[r.event] = "absent", "tenantrepository.ErrEventNotFound")
      ++ VerifyOwnership(r, r.event) ++ Ensure(r, r.event)
      ++ (CASE r.proc \in {"GrantEventRole", "RevokeRole"} ->
                  FailIf(db.event[r.event] = "archived", "ErrEventArchived")
            [] r.proc = "TransitionEventStatus" ->
                  FailIf(~CanTransition(db.event[r.event], r.to),
                         "ErrInvalidEventStatusTransition")
            [] OTHER -> NoError)

FindEvent ==
    /\ stage = "event"
    /\ LET failure == EventGate(req) IN
       CASE failure # NoError -> Reject(req, failure)
         [] failure = NoError /\ req.proc = "GetEvent" ->
               Answer(req, {eventProto(db, req.event)})
         [] failure = NoError /\ req.proc = "TransitionEventStatus" ->
               Goto("write", req, Blank) /\ UNCHANGED locked
         [] OTHER ->
               Goto("tenant", [req EXCEPT !.tenant = req.event], Blank) /\ UNCHANGED locked
    /\ UNCHANGED <<db, fate, disturbed>>

\* FindTenantByPublicID, then the gates of the use case.
TenantGate(r) ==
    FailIf(db.tenant[r.tenant] = "absent", "tenantrepository.ErrTenantNotFound")
      ++ VerifyOwnership(r, r.tenant)
      ++ (CASE r.proc \in {"AcceptTenantInvitation", "ListMemberships",
                           "ListTenantInvitations"} -> NoError
            [] r.proc = "ListEvents"  ->
                  FailIf(db.tenant[r.tenant] = "pending", "ErrTenantPendingOwner")
            [] r.proc = "CreateEvent" -> Writable(db, r.tenant) ++ SubjectGiven(r)
            [] OTHER -> Writable(db, r.tenant))

AfterTenant(r) ==
    CASE r.proc = "ListMemberships" -> "memberships"
      [] r.proc \in {"ListTenantInvitations", "ListEvents"} -> "read"
      [] r.proc = "CreateEvent" -> "role"
      [] OTHER -> "write"

\* An acceptance keeps the copy of the tenant for its transaction.
FindTenant ==
    /\ stage = "tenant"
    /\ LET failure == TenantGate(req) IN
       IF failure # NoError
         THEN Reject(req, failure)
         ELSE /\ Goto(AfterTenant(req), req,
                      IF req.proc = "AcceptTenantInvitation" THEN db.tenant[req.tenant]
                                                             ELSE Blank)
              /\ UNCHANGED locked
    /\ disturbed' = {}
    /\ UNCHANGED <<db, fate>>

----------------------------------------------------------------------------
(* Reads *)

\* ListEventsByTenantID, ListOpenInvitations, FindTenantPublicIDBySubdomain.
Found(r) ==
    LET t == r.tenant IN
    CASE r.proc = "ListEvents" ->
            IF db.event[t] = "absent" \/ (db.event[t] = "archived" /\ ~r.all)
              THEN {} ELSE {eventProto(db, t)}
      [] r.proc = "ListTenantInvitations" ->
            IF db.invitation[t] = "open" THEN {invitationProto(t)} ELSE {}
      [] r.proc = "ResolveTenantSubdomain" ->
            {[tenantId |-> r.subdomain] : s \in {"owned", "archived"} \cap {db.tenant[r.subdomain]}}

Read ==
    /\ stage = "read"
    /\ IF req.proc = "ResolveTenantSubdomain" /\ Found(req) = {}
         THEN Reject(req, {"tenantrepository.ErrTenantNotFound"})
         ELSE Answer(req, Found(req))
    /\ UNCHANGED <<db, fate, disturbed>>

\* The first query of listMemberships.  An addition that reads its row back
\* does not find it when it has been revoked already.
ReadMemberships ==
    LET rows == {u \in Users : /\ req.user \in {u, Blank}
                               /\ db.role[req.tenant][u] # NoRole}
    IN  /\ stage = "memberships"
        /\ CASE rows # {} ->
                  /\ Goto("eventRoles", req, [u \in rows |-> db.role[req.tenant][u]])
                  /\ UNCHANGED locked
             [] rows = {} /\ req.proc = "AddTenantMember" ->
                  Reject(req, {"ErrMembershipNotFound"})
             [] rows = {} /\ req.proc = "ListMemberships" -> Answer(req, {})
        /\ disturbed' = IF req.proc = "AddTenantMember" THEN disturbed ELSE {}
        /\ UNCHANGED <<db, fate>>

\* Mutant: the event roles are collected by tenant, not by member.
EventRoleOfAnyRow(t, u) ==
    IF \E w \in Users : db.eventRole[t][w] # NoRole
      THEN db.eventRole[t][CHOOSE w \in Users : db.eventRole[t][w] # NoRole]
      ELSE NoRole

\* The event roles that the second query finds for a row of the first.
EventRoleOfRow(t, u) == db.eventRole[t][u]

ReadEventRoles ==
    /\ stage = "eventRoles"
    /\ LET failure == VerifyOwnership(req, req.tenant) IN
       IF failure # NoError
         THEN Reject(req, failure)
         ELSE Answer(req, {MembershipOf(req, req.tenant, u, seen[u],
                                        EventRoleOfRow(req.tenant, u)) : u \in DOMAIN seen})
    /\ UNCHANGED <<db, fate, disturbed>>

----------------------------------------------------------------------------
(* Writes *)

RoleOf(r, t) == IF SubjectFromContext(r) \in Users THEN db.role[t][SubjectFromContext(r)]
                                                   ELSE NoRole

\* Mutant: the token's scope is all that is asked for.
RequireNothing(r, t) == SubjectGiven(r)

\* Authorizer.Require and Allowed, on the membership as it is now.
Require(r, t) ==
    SubjectGiven(r)
      ++ FailIf(~Grants(RoleOf(r, t), ScopeTenantWrite), "ErrPermissionDenied")

KeepAnotherOwner(t, u) ==
    FailIf({w \in Users : db.role[t][w] = "owner"} = {u}, "ErrLastOwner")

MemberFound(t, u)   == FailIf(db.role[t][u] = NoRole, "ErrMembershipNotFound")
MemberMissing(t, u) == FailIf(db.role[t][u] # NoRole, "ErrMembershipAlreadyExists")

\* The statements of each write that can refuse it.  A token or id that is not
\* the contested tenant's names no invitation of it.
WriteChecks(r) ==
    LET t == Target(r) IN
    CASE r.proc = "StartTenantRegistration" -> NoError
      [] r.proc = "ClaimTenantOwnership" ->
            FailIf(db.tenant[t] = "absent", "tenantrepository.ErrTenantNotFound")
              ++ VerifyOwnership(r, t)
              ++ FailIf(db.tenant[t] # "pending" \/ r.secret # "right",
                        "ErrOwnershipClaimRejected")
              ++ FailIf(r.subdomain \in Tenants /\ db.tenant[r.subdomain] \in {"owned", "archived"},
                        "ErrTenantSubdomainExists")
      [] r.proc \in {"ChangeTenantContract", "ArchiveTenant"} ->
            FailIf(db.tenant[t] = "absent", "tenantrepository.ErrTenantNotFound")
              ++ VerifyOwnership(r, t) ++ Writable(db, t) ++ Require(r, t)
      [] r.proc = "CreateEvent" ->
            FailIf(db.tenant[t] = "archived", "ErrTenantArchived")
              ++ FailIf(RoleOf(r, t) = NoRole, "ErrTenantMembershipRequired")
      [] r.proc = "TransitionEventStatus" ->
            FailIf(db.tenant[t] = "archived", "ErrTenantArchived")
      [] r.proc = "AddTenantMember"  -> MemberMissing(t, r.user)
      [] r.proc = "ChangeTenantRole" ->
            Require(r, t) ++ (IF r.role # "owner" THEN KeepAnotherOwner(t, r.user) ELSE NoError)
              ++ MemberFound(t, r.user)
      [] r.proc = "GrantEventRole" ->
            Require(r, t)
              ++ FailIf(db.role[t][r.user] = NoRole, "ErrTenantMembershipRequired")
      [] r.proc = "RevokeRole" /\ r.event # Blank ->
            Require(r, t)
              ++ FailIf(db.eventRole[t][r.user] = NoRole, "ErrEventRoleNotFound")
      [] r.proc = "RevokeRole" /\ r.event = Blank ->
            Require(r, t) ++ KeepAnotherOwner(t, r.user) ++ MemberFound(t, r.user)
      [] r.proc = "CreateTenantInvitation" -> Require(r, t)
      [] r.proc = "RevokeTenantInvitation" ->
            FailIf(r.secret = "wrong" \/ db.invitation[t] = "none", "ErrInvitationNotFound")
              ++ FailIf(db.invitation[t] = "closed", "ErrInvitationNotPending")
      [] r.proc = "AcceptTenantInvitation" ->
            FailIf(r.secret = "wrong" \/ db.invitation[t] # "open", "ErrInvitationRejected")
              ++ FailIf(seen = "pending", "ErrTenantPendingOwner")
              ++ FailIf(seen = "archived", "ErrTenantArchived")
              ++ MemberMissing(t, SubjectFromContext(r))

WithRole(d, t, u, role) ==
    [d EXCEPT !.role[t][u] = role,
              !.eventRole[t][u] = IF role = NoRole THEN NoRole ELSE @]

WithEvent(d, t, u) ==
    [d EXCEPT !.event[t] = "draft", !.eventRole[t][u] = d.role[t][u]]

\* The rows after the write.
Effect(r) ==
    LET t == Target(r) IN
    CASE r.proc = "StartTenantRegistration" ->
            [db EXCEPT !.tenant[Contested] = "pending", !.plan[Contested] = r.plan]
      [] r.proc = "ClaimTenantOwnership" ->
            WithRole([db EXCEPT !.tenant[t] = "owned"], t, SubjectFromContext(r), "owner")
      [] r.proc = "ChangeTenantContract" -> [db EXCEPT !.plan[t] = r.plan]
      [] r.proc = "ArchiveTenant"        -> [db EXCEPT !.tenant[t] = "archived"]
      [] r.proc = "CreateEvent" ->
            [db EXCEPT !.event[t] = "draft", !.eventRole[t][SubjectFromContext(r)] = seen]
      [] r.proc = "TransitionEventStatus" -> [db EXCEPT !.event[t] = r.to]
      [] r.proc \in {"AddTenantMember", "ChangeTenantRole"} -> WithRole(db, t, r.user, r.role)
      [] r.proc = "GrantEventRole" -> [db EXCEPT !.eventRole[t][r.user] = r.role]
      [] r.proc = "RevokeRole" ->
            IF r.event # Blank THEN [db EXCEPT !.eventRole[t][r.user] = NoRole]
                               ELSE WithRole(db, t, r.user, NoRole)
      [] r.proc = "CreateTenantInvitation" -> [db EXCEPT !.invitation[t] = "open"]
      [] r.proc = "RevokeTenantInvitation" -> [db EXCEPT !.invitation[t] = "closed"]
      [] r.proc = "AcceptTenantInvitation" ->
            WithRole([db EXCEPT !.invitation[t] = "closed"], t, SubjectFromContext(r), "staff")

\* What a successful write answers with, from the rows d it leaves.
Written(r, d) ==
    LET t == Target(r)
        u == IF r.proc = "AcceptTenantInvitation" THEN SubjectFromContext(r) ELSE r.user
    IN  CASE r.proc = "StartTenantRegistration" -> {tenantProto(d, Contested)}
          [] r.proc \in {"ClaimTenantOwnership", "ChangeTenantContract", "ArchiveTenant"} ->
                {tenantProto(d, t)}
          [] r.proc \in {"CreateEvent", "TransitionEventStatus"} -> {eventProto(d, t)}
          [] r.proc \in {"CreateTenantInvitation", "RevokeTenantInvitation"} ->
                {invitationProto(t)}
          [] r.proc = "RevokeRole" -> {}
          [] OTHER -> {membershipProto(t, u, d.role[t][u], d.eventRole[t][u])}

\* Mutant: the role is read without FOR SHARE.
CurrentRoleUnlocked ==
    /\ stage = "role"
    /\ IF RoleOf(req, req.tenant) = NoRole
         THEN Reject(req, {"ErrCreatorNotMember"})
         ELSE Goto("write", req, RoleOf(req, req.tenant)) /\ UNCHANGED locked
    /\ UNCHANGED <<db, fate, disturbed>>

\* The first statement of CreateEvent's transaction.
CurrentRole ==
    /\ stage = "role"
    /\ IF RoleOf(req, req.tenant) = NoRole
         THEN Reject(req, {"ErrCreatorNotMember"})
         ELSE /\ Goto("write", req, RoleOf(req, req.tenant))
              /\ locked' = {SubjectFromContext(req)}
    /\ UNCHANGED <<db, fate, disturbed>>

\* The write and its commit.  AddTenantMember commits its INSERT by itself and
\* reads the membership back in statements of their own; its foreign key always
\* finds the tenant, since the gate let an owned one pass and only pending ones
\* are ever deleted.
Write ==
    /\ stage = "write"
    /\ LET failure == WriteChecks(req) IN
       IF failure # NoError
         THEN Reject(req, failure) /\ UNCHANGED <<db, fate>>
         ELSE /\ db' = Effect(req)
              /\ fate' = [fate EXCEPT !.applied = TRUE]
              /\ IF req.proc = "AddTenantMember"
                   THEN Goto("memberships", req, Blank) /\ UNCHANGED locked
                   ELSE Answer(req, Written(req, db'))
    /\ UNCHANGED disturbed

----------------------------------------------------------------------------
(* Failures of the database and of the caller's patience *)

InTransaction(r) ==
    r.proc \notin {"StartTenantRegistration", "TransitionEventStatus", "AddTenantMember"}

\* A failed statement; the deadlock and the serialization failure that
\* RunInTransaction marks as retryable.
Failures(r) ==
    {{}, {Canceled}, {DeadlineExceeded}}
      \cup {{"ErrTransactionAborted"} : x \in {s \in {"role", "write"} : s = stage /\ InTransaction(r)}}

FailStatement ==
    /\ stage \notin {"idle", "answered"}
    /\ \E err \in Failures(req) : Reject(req, err)
    /\ fate' = [fate EXCEPT !.failed = TRUE]
    /\ UNCHANGED <<db, disturbed>>

\* Mutant: whatever Commit reports is marked as retryable.
CommitErrorsRetryable == {{"ErrTransactionAborted"}}

\* A failed Commit is not marked: the database may have committed.
CommitErrors == {{}, {Canceled}, {DeadlineExceeded}}

\* The commit succeeds and the connection is lost before it says so.
LoseCommitAnswer ==
    /\ stage = "write"
    /\ WriteChecks(req) = NoError
    /\ db' = Effect(req)
    /\ fate' = [applied |-> TRUE, failed |-> TRUE]
    /\ \E err \in CommitErrors : Respond(CodeOf(req, err), {}, req)
    /\ UNCHANGED disturbed

\* The response is sent, or nobody is there any more to take it.
Send ==
    /\ stage = "answered"
    /\ stage' = "idle"
    /\ req' = Empty
    /\ answer' = NoAnswer
    /\ fate' = NoFate
    /\ disturbed' = {}
    /\ UNCHANGED <<db, seen, locked, late>>

----------------------------------------------------------------------------
(* Everybody else: complete requests on the contested tenant.  An answer that
   is on its way reads nothing any more, so they are let in before it only.  *)

OthersWrite(d, touched) ==
    /\ stage # "answered"
    /\ db' = d
    /\ disturbed' = IF stage \in {"memberships", "eventRoles"} THEN disturbed \cup touched
                                                               ELSE disturbed
    /\ late' = (late /\ Closed(d, req))
    /\ UNCHANGED <<stage, req, seen, answer, locked, fate>>

TenantIs(states) == db.tenant[Contested] \in states

OthersRegister ==
    /\ TenantIs({"absent"})
    /\ req.proc # "StartTenantRegistration"
    /\ OthersWrite([db EXCEPT !.tenant[Contested] = "pending"], {})

OthersSweep ==
    /\ TenantIs({"pending"})
    /\ OthersWrite([db EXCEPT !.tenant[Contested] = "absent"], {})

OthersClaim(u) ==
    /\ TenantIs({"pending"})
    /\ OthersWrite(WithRole([db EXCEPT !.tenant[Contested] = "owned"], Contested, u, "owner"), {u})

OthersArchive ==
    /\ TenantIs({"owned"})
    /\ OthersWrite([db EXCEPT !.tenant[Contested] = "archived"], {})

\* Additions, role changes and revocations, an acceptance among them; the last
\* owner stays.  A write whose gate came first may still follow the archiving.
OthersSetRole(u, role) ==
    /\ TenantIs({"owned", "archived"})
    /\ u \notin locked
    /\ role # db.role[Contested][u]
    /\ \E w \in Users : WithRole(db, Contested, u, role).role[Contested][w] = "owner"
    /\ OthersWrite(WithRole(db, Contested, u, role), {u})

OthersCreateEvent(u) ==
    /\ TenantIs({"owned", "archived"})
    /\ db.event[Contested] = "absent"
    /\ req.proc # "CreateEvent"
    /\ db.role[Contested][u] # NoRole
    /\ OthersWrite(WithEvent(db, Contested, u), {u})

OthersTransition(to) ==
    /\ TenantIs({"owned", "archived"})
    /\ CanTransition(db.event[Contested], to)
    /\ OthersWrite([db EXCEPT !.event[Contested] = to], {})

OthersSetEventRole(u, role) ==
    /\ db.event[Contested] # "absent"
    /\ db.role[Contested][u] # NoRole
    /\ role # db.eventRole[Contested][u]
    /\ OthersWrite([db EXCEPT !.eventRole[Contested][u] = role], {u})

OthersInvite(state) ==
    /\ TenantIs({"owned"})
    /\ state = (IF db.invitation[Contested] = "open" THEN "closed" ELSE "open")
    /\ OthersWrite([db EXCEPT !.invitation[Contested] = state], {})

----------------------------------------------------------------------------

\* Every tenant but the contested one is owned and has an event.
Init ==
    /\ \E owner \in Users :
          db = [tenant |-> [t \in Tenants |-> IF t = Contested THEN "absent" ELSE "owned"],
                plan |-> [t \in Tenants |-> "first"],
                role |-> [t \in Tenants |-> [u \in Users |->
                             IF t # Contested /\ u = owner THEN "owner" ELSE NoRole]],
                event |-> [t \in Tenants |-> IF t = Contested THEN "absent" ELSE "draft"],
                eventRole |-> [t \in Tenants |-> [u \in Users |->
                             IF t # Contested /\ u = owner THEN "owner" ELSE NoRole]],
                invitation |-> [t \in Tenants |-> "none"]]
    /\ stage = "idle"
    /\ req = Empty
    /\ seen = Blank
    /\ answer = NoAnswer
    /\ locked = {}
    /\ fate = NoFate
    /\ disturbed = {}
    /\ late = FALSE

Others ==
    \/ OthersRegister \/ OthersSweep \/ OthersArchive
    \/ \E u \in Users : OthersClaim(u) \/ OthersCreateEvent(u)
    \/ \E u \in Users, role \in GrantableRoles \cup {NoRole} :
          OthersSetRole(u, role) \/ OthersSetEventRole(u, role)
    \/ \E to \in AskedStatuses : OthersTransition(to)
    \/ \E state \in InvitationStates : OthersInvite(state)

Next ==
    \/ \E token \in Tokens :
          \/ \E p \in RelationProcedures : ReceiveRelation(p, token)
          \/ \E p \in TenantProcedures : ReceiveTenant(p, token)
          \/ ReceiveUnverifiable(token)
    \/ \E t \in Named, u \in Asked : ReceiveHttp(t, u)
    \/ FindEvent \/ FindTenant \/ Read \/ ReadMemberships \/ ReadEventRoles
    \/ CurrentRole \/ Write \/ FailStatement \/ LoseCommitAnswer \/ Send
    \/ Others

Spec == Init /\ [][Next]_vars

----------------------------------------------------------------------------
(* Properties *)

Stages == {"idle", "event", "tenant", "role", "read", "memberships",
           "eventRoles", "write", "answered"}

\* Types: roles, statuses and codes are the ones the code knows, also what an
\* answer carries, and a transaction locks the row of its caller only.
TypeOK ==
    /\ db \in Databases
    /\ \A t \in Tenants, u \in Users :
          {db.role[t][u], db.eventRole[t][u]} \subseteq GrantableRoles \cup {NoRole}
    /\ stage \in Stages
    /\ DOMAIN req = DOMAIN Empty
    /\ answer.code \in Codes \cup {"none"}
    /\ locked \subseteq {SubjectFromContext(req)}
    /\ fate \in [applied : BOOLEAN, failed : BOOLEAN]
    /\ disturbed \subseteq Users
    /\ late \in BOOLEAN

\* The tenants whose data the caller of r may see: the one its token or its
\* path names, and without either the one whose one-time token or subdomain it
\* presents.
Visible(r) ==
    CASE r.http -> {r.bound}
      [] r.proc = "StartTenantRegistration" -> {Contested}
      [] r.proc = "ResolveTenantSubdomain"  -> {r.subdomain}
      [] r.token.tenant # Blank -> {r.token.tenant}
      [] r.proc \in {"ClaimTenantOwnership", "AcceptTenantInvitation"} /\ r.secret = "right" ->
            {r.tenant}
      [] OTHER -> {}

\* No answer carries a row of a tenant the caller is not scoped to, whichever
\* RPC it calls, with whatever token and whatever target (tenantctx).
AnswersStayInTenant ==
    stage = "answered" => \A row \in answer.body : row.tenantId \in Visible(req)

\* What entitles the caller of r to change tenant t at this moment.
Entitled(r, t) ==
    CASE r.proc \in {"ChangeTenantContract", "ArchiveTenant", "ChangeTenantRole",
                     "GrantEventRole", "RevokeRole", "CreateTenantInvitation"} ->
            r.token.tenant = t /\ Grants(RoleOf(r, t), ScopeTenantWrite)
      [] r.proc = "RevokeTenantInvitation" ->
            r.token.tenant = t /\ ScopeTenantWrite \in r.token.scopes
      [] r.proc = "CreateEvent" -> r.token.tenant = t /\ RoleOf(r, t) # NoRole
      [] r.proc = "TransitionEventStatus" ->
            r.token.tenant = t /\ "events.manage" \in r.token.scopes
      [] r.proc = "AddTenantMember" -> r.token.use = "service" /\ r.token.tenant = t
      [] r.proc \in {"ClaimTenantOwnership", "AcceptTenantInvitation"} ->
            /\ r.secret = "right" /\ r.tenant = t
            /\ \A u \in Users \ {SubjectFromContext(r)} : db'.role[t][u] = db.role[t][u]
      [] r.proc = "StartTenantRegistration" -> db.tenant[t] = "absent"
      [] OTHER -> FALSE

\* A request changes the rows of a tenant only if its caller is entitled to
\* when the change commits: a token of that tenant, and for the administrative
\* writes a role that grants tenant.write now, not when the token was issued
\* (withCurrentPermission, administerTenant).
WritesAreAuthorized ==
    [][stage' # stage =>
          \A t \in Tenants :
             (\E f \in DOMAIN db : db'[f][t] # db[f][t]) => Entitled(req, t)]_vars

\* "internal" says that the server failed: every refusal that concurrent
\* requests can bring about has a row in the table of its service, and the
\* HTTP API never meets the errors it leaves unmapped (ClientErrors.For,
\* writeError).
InternalMeansFailure == answer.code = "internal" => fate.failed

Reads == {"GetEvent", "ListEvents", "ListMemberships", "ListTenantInvitations",
          "ResolveTenantSubdomain"}

\* A write that is answered with success has been applied; one answered with a
\* code that blames the caller, or asks for a retry, has not.  The exception is
\* AddTenantMember, which reads its committed row back: others may have revoked
\* it by then.
AnswerMatchesEffect ==
    stage = "answered" /\ req.proc # "none" =>
       /\ answer.code = "ok" /\ req.proc \notin Reads => fate.applied
       /\ fate.applied =>
             \/ answer.code \in {"ok", "internal", "canceled", "deadline_exceeded"}
             \/ /\ req.proc = "AddTenantMember"
                /\ answer.code = "not_found"
                /\ req.user \in disturbed

\* A listing is made by two statements and the members may change between
\* them: a member nobody wrote in the meantime is listed exactly as it is,
\* whatever happened to the others (listMemberships).
UndisturbedMembersExact ==
    stage = "answered" /\ req.proc = "ListMemberships" /\ answer.code = "ok" =>
       \A u \in Users \ disturbed :
          LET t == req.tenant IN
          req.user \in {u, Blank} =>
             {row \in answer.body : row.userId = u} =
                IF db.role[t][u] = NoRole
                  THEN {} ELSE {MembershipOf(req, t, u, db.role[t][u], db.eventRole[t][u])}

\* What has been archived all the time that a request was under way is not
\* changed by it: tenants by no write, the roles of an archived event by no
\* GrantEventRole and no RevokeRole (writableTenant, writableEvent,
\* administerTenant, UpdateEvent).
GatesBindLaterRequests == [][late /\ stage' # stage => db' = db]_vars
=============================================================================
