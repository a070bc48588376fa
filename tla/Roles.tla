-------------------------------- MODULE Roles --------------------------------
(* Roles and the scopes they issue: internal/relation/domain/{role,permission}.go.
   NoRole is the absence of a membership row (RoleUnspecified in the code).   *)

Roles  == {"owner", "admin", "staff"}
NoRole == "none"

RoleOrNone == Roles \cup {NoRole}

\* The roles Grantable() lets a write assign: admin is reserved.
GrantableRoles == {"owner", "staff"}

\* The roles Invitable() lets an invitation carry.
InvitableRoles == {"staff"}

MemberScopes == {"tenant.read", "events.read", "events.manage",
                 "events.operate", "events.report"}
AdminScopes  == {"tenant.write"}

ScopeTenantWrite == "tenant.write"

\* Role.Grants: owner and the reserved admin issue every scope, staff every
\* scope but tenant.write, no role issues nothing.
Grants(r, scope) ==
    \/ r \in {"owner", "admin"} /\ scope \in MemberScopes \cup AdminScopes
    \/ r = "staff" /\ scope \in MemberScopes
=============================================================================
