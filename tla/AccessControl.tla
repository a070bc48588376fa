---------------------------- MODULE AccessControl ----------------------------
(* Who may call what, and in which tenant: the policy tables of the two
   services, the interceptor that applies them to the internal JWT, and the
   tenant boundary of internal/tenantctx.

   A context is what a handler finds in context.Context: the claims of the
   verified token, if there is one, and the tenant that the HTTP transport
   bound.  An absent claim is the empty string.                              *)
EXTENDS Roles, Sequences, SequencesExt

Blank == ""

----------------------------------------------------------------------------
(* Procedures and policies *)

RelationProcedures == {"CreateTenantInvitation", "ListTenantInvitations",
                       "RevokeTenantInvitation", "AcceptTenantInvitation",
                       "AddTenantMember", "ChangeTenantRole", "GrantEventRole",
                       "RevokeRole", "ListMemberships"}

TenantProcedures == {"StartTenantRegistration", "ClaimTenantOwnership",
                     "ResolveTenantSubdomain", "ChangeTenantContract",
                     "ArchiveTenant", "CreateEvent", "TransitionEventStatus",
                     "GetEvent", "ListEvents"}

Public == [level |-> "public"]
Internal == [level |-> "internal"]
Authenticated(use, scope) ==
    [level |-> "authenticated", use |-> use, scope |-> scope]

RelationAdminServicePolicies ==
    [p \in RelationProcedures |->
        CASE p = "AcceptTenantInvitation" -> Authenticated("registration", "tenant.join")
          [] p = "AddTenantMember"        -> Internal
          [] p = "ListMemberships"        -> Authenticated("tenant_access", "tenant.read")
          [] OTHER                        -> Authenticated("tenant_access", "tenant.write")]

TenantServicePolicies ==
    [p \in TenantProcedures |->
        CASE p = "ClaimTenantOwnership" -> Authenticated("registration", "tenant.join")
          [] p \in {"StartTenantRegistration", "ResolveTenantSubdomain"} -> Public
          [] p = "GetEvent"             -> Internal
          [] p = "ListEvents"           -> Authenticated("tenant_access", "events.read")
          [] p \in {"CreateEvent", "TransitionEventStatus"} ->
                Authenticated("tenant_access", "events.manage")
          [] OTHER                      -> Authenticated("tenant_access", "tenant.write")]

----------------------------------------------------------------------------
(* Internal JWTs, and the interceptor that verifies them *)

\* The scopes are those of the role the user had when the token was issued.
TenantAccess(user, tenant, role) ==
    [use |-> "tenant_access", subject |-> user, tenant |-> tenant,
     scopes |-> {s \in MemberScopes \cup AdminScopes : Grants(role, s)}]

Registration(user) ==
    [use |-> "registration", subject |-> user, tenant |-> Blank,
     scopes |-> {"tenant.join"}]

\* A service acting for a user passes the tenant on, a machine has none.
Service(tenant) ==
    [use |-> "service", subject |-> "service", tenant |-> tenant, scopes |-> {}]

NoToken == [use |-> Blank, subject |-> Blank, tenant |-> Blank, scopes |-> {}]

\* The code the interceptor refuses a call with, "ok" when it lets it pass.  A
\* service token is accepted by its use alone, a public procedure takes any.
Admit(policy, token) ==
    CASE policy.level = "public"   -> "ok"
      [] policy.level = "internal" ->
            IF token.use = "service" THEN "ok" ELSE "unauthenticated"
      [] OTHER ->
            CASE token.use # policy.use -> "unauthenticated"
              [] token.use = policy.use /\ policy.scope \notin token.scopes ->
                    "permission_denied"
              [] OTHER -> "ok"

\* The claims a handler finds: those of a public procedure verify nothing.
Claims(policy, token) == IF policy.level = "public" THEN NoToken ELSE token

----------------------------------------------------------------------------
(* Checks.  The result of a check is the set of sentinel errors that errors.Is
   finds in it; the first check that fails is the one that is reported.       *)

NoError == {"nil"}

FailIf(condition, error) == IF condition THEN {error} ELSE NoError

\* The checks a and, where they pass, the checks b.
a ++ b == IF a = NoError THEN b ELSE a

----------------------------------------------------------------------------
(* internal/tenantctx *)

\* SubjectFromContext, Blank when there is none.
SubjectFromContext(ctx) == ctx.token.subject

\* WithTenantPublicID
WithTenantPublicID(ctx, tenant) == [ctx EXCEPT !.bound = tenant]

\* The claim takes precedence over what a transport bound.
TenantPublicIDFromContext(ctx) ==
    IF ctx.token.tenant # Blank THEN ctx.token.tenant ELSE ctx.bound

\* Mutant: fails open, as VerifyOwnership does.
EnsureOpen(ctx, tenant) ==
    FailIf(TenantPublicIDFromContext(ctx) \notin {Blank, tenant}, "ErrMismatch")

\* Fails closed on a context without a tenant.
Ensure(ctx, tenant) ==
    FailIf(TenantPublicIDFromContext(ctx) = Blank, "ErrMissing")
      ++ FailIf(TenantPublicIDFromContext(ctx) # tenant, "ErrMismatch")

\* The check on every row read back; fails open on a context without a tenant.
VerifyOwnership(ctx, tenant) ==
    FailIf(TenantPublicIDFromContext(ctx) \notin {Blank, tenant}, "ErrMismatch")
=============================================================================
