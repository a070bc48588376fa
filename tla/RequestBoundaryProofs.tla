------------------------ MODULE RequestBoundaryProofs ------------------------
(* The theorems of RequestBoundary, for any tenants, users and statuses asked
   for.                                                                      *)
EXTENDS RequestBoundary, WellFoundedInduction, TLAPS

EventProcedures == {"GrantEventRole", "RevokeRole", "TransitionEventStatus", "GetEvent"}

\* The procedures that need no tenant in the token.
Unscoped == {"StartTenantRegistration", "ResolveTenantSubdomain",
             "ClaimTenantOwnership", "AcceptTenantInvitation"}

\* The claims with which a call of p passes the interceptor.
TokenFits(p, token) ==
    /\ token.tenant \in {Blank, Contested}
    /\ p \in Unscoped => token.tenant = Blank
    /\ p \in {"ClaimTenantOwnership", "AcceptTenantInvitation"} => token.subject \in Users
    /\ p = "AddTenantMember" => token.use = "service"
    /\ p = "RevokeTenantInvitation" => ScopeTenantWrite \in token.scopes
    /\ p = "TransitionEventStatus" => "events.manage" \in token.scopes

LEMMA TokenFacts ==
    ASSUME NEW token \in Tokens
    PROVE  /\ token.tenant \in {Blank, Contested}
           /\ token.use \in {"tenant_access", "registration", "service", Blank}
           /\ token.use = "registration" => token.tenant = Blank /\ token.subject \in Users
<1>1. \/ \E u \in Users, role \in GrantableRoles : token = TenantAccess(u, Contested, role)
      \/ \E u \in Users : token = Registration(u)
      \/ token \in {Service(Contested), Service(Blank), NoToken}
  BY DEF Tokens
<1>2. ASSUME NEW u \in Users, NEW role \in GrantableRoles, token = TenantAccess(u, Contested, role)
      PROVE  token.tenant = Contested /\ token.use = "tenant_access"
  BY <1>2 DEF TenantAccess
<1>3. ASSUME NEW u \in Users, token = Registration(u)
      PROVE  token.tenant = Blank /\ token.use = "registration" /\ token.subject \in Users
  BY <1>3 DEF Registration
<1>4. ASSUME token \in {Service(Contested), Service(Blank), NoToken}
      PROVE  token.tenant \in {Blank, Contested} /\ token.use \in {"service", Blank}
  BY <1>4 DEF Service, NoToken
<1> QED  BY <1>1, <1>2, <1>3, <1>4 DEF Blank

LEMMA RelationTokenFits ==
    ASSUME NEW p \in RelationProcedures, NEW token \in Tokens,
           Admit(RelationAdminServicePolicies[p], token) = "ok"
    PROVE  TokenFits(p, token)
<1> DEFINE policy == RelationAdminServicePolicies[p]
<1>1. policy = CASE p = "AcceptTenantInvitation" -> Authenticated("registration", "tenant.join")
          [] p = "AddTenantMember"        -> Internal
          [] p = "ListMemberships"        -> Authenticated("tenant_access", "tenant.read")
          [] OTHER                        -> Authenticated("tenant_access", "tenant.write")
  BY DEF RelationAdminServicePolicies
<1>2. CASE p = "AcceptTenantInvitation"
  <2>1. policy = Authenticated("registration", "tenant.join")
    BY <1>1, <1>2
  <2>2. token.use = "registration"
    BY <2>1 DEF Admit, Authenticated
  <2> QED  BY <1>2, <2>2, TokenFacts DEF TokenFits
<1>3. CASE p = "AddTenantMember"
  <2>1. policy = Internal
    BY <1>1, <1>3
  <2>2. token.use = "service"
    BY <2>1 DEF Admit, Internal
  <2> QED  BY <1>3, <2>2, TokenFacts DEF TokenFits, Unscoped
<1>4. CASE p = "RevokeTenantInvitation"
  <2>1. policy = Authenticated("tenant_access", "tenant.write")
    BY <1>1, <1>4
  <2>2. "tenant.write" \in token.scopes
    BY <2>1 DEF Admit, Authenticated
  <2> QED  BY <1>4, <2>2, TokenFacts DEF TokenFits, Unscoped, ScopeTenantWrite
<1>5. CASE p \notin {"AcceptTenantInvitation", "AddTenantMember", "RevokeTenantInvitation"}
  BY <1>5, TokenFacts DEF TokenFits, Unscoped, RelationProcedures
<1> QED  BY <1>2, <1>3, <1>4, <1>5

LEMMA TenantTokenFits ==
    ASSUME NEW p \in TenantProcedures, NEW token \in Tokens,
           Admit(TenantServicePolicies[p], token) = "ok"
    PROVE  TokenFits(p, Claims(TenantServicePolicies[p], token))
<1> DEFINE policy == TenantServicePolicies[p]
<1>1. policy = CASE p = "ClaimTenantOwnership" -> Authenticated("registration", "tenant.join")
          [] p \in {"StartTenantRegistration", "ResolveTenantSubdomain"} -> Public
          [] p = "GetEvent"             -> Internal
          [] p = "ListEvents"           -> Authenticated("tenant_access", "events.read")
          [] p \in {"CreateEvent", "TransitionEventStatus"} ->
                Authenticated("tenant_access", "events.manage")
          [] OTHER                      -> Authenticated("tenant_access", "tenant.write")
  BY DEF TenantServicePolicies
<1>2. CASE p = "ClaimTenantOwnership"
  <2>1. policy = Authenticated("registration", "tenant.join")
    BY <1>1, <1>2
  <2>2. token.use = "registration" /\ Claims(policy, token) = token
    BY <2>1 DEF Admit, Claims, Authenticated
  <2> QED  BY <1>2, <2>2, TokenFacts DEF TokenFits
<1>3. CASE p \in {"StartTenantRegistration", "ResolveTenantSubdomain"}
  <2>1. policy = Public
    BY <1>1, <1>3
  <2>2. Claims(policy, token) = NoToken
    BY <2>1 DEF Claims, Public
  <2> QED  BY <1>3, <2>2 DEF TokenFits, NoToken
<1>4. CASE p = "TransitionEventStatus"
  <2>1. policy = Authenticated("tenant_access", "events.manage")
    BY <1>1, <1>4
  <2>2. "events.manage" \in token.scopes /\ Claims(policy, token) = token
    BY <2>1 DEF Admit, Claims, Authenticated
  <2> QED  BY <1>4, <2>2, TokenFacts DEF TokenFits, Unscoped
<1>5. CASE p \notin {"ClaimTenantOwnership", "StartTenantRegistration",
                     "ResolveTenantSubdomain", "TransitionEventStatus"}
  <2>1. Claims(policy, token) \in {token, NoToken} /\ NoToken \in Tokens
    BY DEF Claims, Tokens
  <2> QED  BY <1>5, <2>1, TokenFacts DEF TokenFits, Unscoped, TenantProcedures
<1> QED  BY <1>2, <1>3, <1>4, <1>5

-----------------------------------------------------------------------------
(* The input of a use case *)

Fields == {"proc", "http", "token", "bound", "tenant", "event", "user", "role", "text",
           "plan", "secret", "subdomain", "to", "all"}

LEMMA EmptyFields ==
    /\ DOMAIN Empty = Fields
    /\ Empty.http = FALSE
    /\ Blank = Empty.bound /\ Blank = Empty.tenant /\ Blank = Empty.event
    /\ Blank = Empty.user /\ Blank = Empty.secret /\ Blank = Empty.plan
    /\ Blank = Empty.subdomain
    /\ Empty.role = "ROLE_UNSPECIFIED"
  BY DEF Empty, Fields

LEMMA InputFields ==
    ASSUME NEW p, NEW token, NEW message
    PROVE  LET r == Input(p, token, message) IN
           /\ DOMAIN r = Fields
           /\ r.proc = p
           /\ r.token = token
           /\ \A f \in Fields \ {"proc", "token"} :
                 r[f] = IF f \in DOMAIN message THEN message[f] ELSE Empty[f]
<1> DEFINE m == [f \in Fields |-> IF f \in DOMAIN message THEN message[f] ELSE Empty[f]]
<1>1. Input(p, token, message) = [m EXCEPT !.proc = p, !.token = token]
  BY EmptyFields, Zenon DEF Input
<1>2. DOMAIN m = Fields /\ \A f \in Fields : m[f] = IF f \in DOMAIN message THEN message[f] ELSE Empty[f]
  BY Zenon
<1>3. "proc" \in Fields /\ "token" \in Fields
  BY Zenon DEF Fields
<1> HIDE DEF m
<1> QED  BY <1>1, <1>2, <1>3

LEMMA RelationInputFields ==
    ASSUME NEW p, NEW token, NEW message
    PROVE  LET r == RelationInput(p, token, message) IN
           /\ DOMAIN r = Fields
           /\ r.proc = p
           /\ r.token = token
           /\ \A f \in Fields \ {"proc", "token", "role"} :
                 r[f] = IF f \in DOMAIN message THEN message[f] ELSE Empty[f]
<1> DEFINE i == Input(p, token, message)
           r == RelationInput(p, token, message)
<1>1. r = [i EXCEPT !.role = roleDomain(@)]
  BY Zenon DEF RelationInput
<1>2. DOMAIN i = Fields /\ DOMAIN r = Fields
  BY <1>1, InputFields
<1>3. \A f \in Fields \ {"role"} : r[f] = i[f]
  BY <1>1, <1>2
<1> QED  BY <1>2, <1>3, InputFields DEF Fields

LEMMA TenantInputFields ==
    ASSUME NEW p, NEW token, NEW message
    PROVE  LET r == TenantInput(p, token, message) IN
           /\ DOMAIN r = Fields
           /\ r.proc = p
           /\ r.token = token
           /\ \A f \in Fields \ {"proc", "token", "to"} :
                 r[f] = IF f \in DOMAIN message THEN message[f] ELSE Empty[f]
           /\ \E wire : r.to = eventStatusDomain(wire)
<1> DEFINE i == Input(p, token, message)
           r == TenantInput(p, token, message)
<1>1. r = [i EXCEPT !.to = eventStatusDomain(@)]
  BY Zenon DEF TenantInput
<1>2. DOMAIN i = Fields /\ DOMAIN r = Fields
  BY <1>1, InputFields
<1>3. \A f \in Fields \ {"to"} : r[f] = i[f]
  BY <1>1, <1>2
<1>4. "to" \in Fields
  BY DEF Fields
<1>5. r.to = eventStatusDomain(i.to)
  BY <1>1, <1>2, <1>4
<1> HIDE DEF r
<1>6. \E wire : r.to = eventStatusDomain(wire)
  BY <1>5
<1> QED  BY <1>2, <1>3, <1>6, InputFields DEF Fields, r

\* What the fields of a request hold, before any check.
FieldsFit(r) ==
    /\ DOMAIN r = Fields
    /\ r.http = FALSE
    /\ r.bound = Blank
    /\ r.tenant \in Named /\ r.event \in Named /\ r.user \in Asked
    /\ r.event # Blank => r.proc \in EventProcedures /\ r.tenant = Blank
    /\ r.secret \in {Blank, "right", "wrong"}
    /\ r.plan \in Plans \cup {Blank}
    /\ r.proc = "TransitionEventStatus" => r.to \in Statuses \cup {"unspecified"}
    /\ r.proc = "StartTenantRegistration" => r.tenant = Blank
    /\ r.proc = "ResolveTenantSubdomain" => r.tenant = Blank /\ r.subdomain \in Named

\* What the fields of a message hold that there are.
MessageFits(p, message) ==
    LET has == DOMAIN message IN
    /\ has \cap {"http", "bound"} = {}
    /\ "tenant" \in has => message.tenant \in Named
    /\ "event" \in has => message.event \in Named /\ p \in EventProcedures
    /\ "event" \in has /\ "tenant" \in has => Blank \in {message.tenant, message.event}
    /\ "user" \in has => message.user \in Asked
    /\ "secret" \in has => message.secret \in {Blank, "right", "wrong"}
    /\ "plan" \in has => message.plan \in Plans \cup {Blank}
    /\ p = "StartTenantRegistration" => "tenant" \notin has
    /\ p = "ResolveTenantSubdomain" =>
          "tenant" \notin has /\ "subdomain" \in has /\ message.subdomain \in Named

LEMMA RelationMessageFits ==
    ASSUME NEW p \in RelationProcedures, NEW message \in RelationMessages(p)
    PROVE  MessageFits(p, message)
<1> DEFINE roles == WireRoles \cup {UnknownNumber}
<1> USE DEF MessageFits, EventProcedures
<1>4. CASE p = "CreateTenantInvitation"
  <2>1. message \in [tenant : Named, role : roles, text : Texts]
    BY <1>4 DEF RelationMessages
  <2> QED  BY <1>4, <2>1
<1>5. CASE p = "ListTenantInvitations"
  <2>1. message \in [tenant : Named]
    BY <1>5 DEF RelationMessages
  <2> QED  BY <1>5, <2>1
<1>6. CASE p \in {"RevokeTenantInvitation", "AcceptTenantInvitation"}
  <2>1. message \in [tenant : Named, secret : {Blank, "right", "wrong"}]
    BY <1>6 DEF RelationMessages
  <2> QED  BY <1>6, <2>1
<1>7. CASE p = "AddTenantMember"
  <2>1. message \in [tenant : Named, user : Asked, role : roles, text : Texts]
    BY <1>7 DEF RelationMessages
  <2> QED  BY <1>7, <2>1
<1>8. CASE p = "ChangeTenantRole"
  <2>1. message \in [tenant : Named, user : Asked, role : roles]
    BY <1>8 DEF RelationMessages
  <2> QED  BY <1>8, <2>1
<1>9. CASE p = "GrantEventRole"
  <2>1. message \in [event : Named, user : Asked, role : roles]
    BY <1>9 DEF RelationMessages
  <2> QED  BY <1>9, <2>1
<1>10. CASE p = "RevokeRole"
  <2>1. message \in RevokeRoleRequest
    BY <1>10 DEF RelationMessages
  <2>2. message \in [tenant : Named, event : Named, user : Asked] /\ Blank \in {message.tenant, message.event}
    BY <2>1, Zenon DEF RevokeRoleRequest
  <2> QED  BY <1>10, <2>2
<1>11. CASE p = "ListMemberships"
  <2>1. message \in ListMembershipsRequest
    BY <1>11 DEF RelationMessages
  <2>2. message \in [tenant : Named, user : Asked]
    BY <2>1, Zenon DEF ListMembershipsRequest
  <2> QED  BY <1>11, <2>2
<1> QED  BY <1>4, <1>5, <1>6, <1>7, <1>8, <1>9, <1>10, <1>11 DEF RelationProcedures

LEMMA RelationFieldsFit ==
    ASSUME NEW p \in RelationProcedures, NEW token, NEW message \in RelationMessages(p)
    PROVE  FieldsFit(RelationInput(p, token, message))
<1> DEFINE r == RelationInput(p, token, message)
<1>1. /\ DOMAIN r = Fields /\ r.proc = p
      /\ \A f \in Fields \ {"proc", "token", "role"} :
            r[f] = IF f \in DOMAIN message THEN message[f] ELSE Empty[f]
  BY RelationInputFields
<1> SUFFICES FieldsFit(r)
  OBVIOUS
<1> HIDE DEF r
<1>2. {"http", "bound", "tenant", "event", "user", "secret", "plan"}
         \subseteq Fields \ {"proc", "token", "role"}
  BY DEF Fields
<1> DEFINE Of(f) == IF f \in DOMAIN message THEN message[f] ELSE Empty[f]
<1>3. /\ r.http = Of("http") /\ r.bound = Of("bound") /\ r.tenant = Of("tenant")
      /\ r.event = Of("event") /\ r.user = Of("user") /\ r.secret = Of("secret")
      /\ r.plan = Of("plan")
  BY <1>1, <1>2
<1>4. MessageFits(p, message)
  BY RelationMessageFits
<1>5. p \notin {"TransitionEventStatus", "StartTenantRegistration", "ResolveTenantSubdomain"}
  BY DEF RelationProcedures
<1> QED  BY <1>1, <1>3, <1>4, <1>5, EmptyFields DEF FieldsFit, MessageFits, Named, Asked

LEMMA TenantMessageFits ==
    ASSUME NEW p \in TenantProcedures, NEW message \in TenantMessages(p)
    PROVE  MessageFits(p, message)
<1> USE DEF MessageFits, EventProcedures
<1>1. CASE p = "StartTenantRegistration"
  <2>1. message \in [text : {Blank, "given"}, plan : {Blank, "first"}]
    BY <1>1 DEF TenantMessages
  <2> QED  BY <1>1, <2>1 DEF Plans
<1>2. CASE p = "ClaimTenantOwnership"
  <2>1. message \in [tenant : Named, secret : {Blank, "right", "wrong"},
                     subdomain : Tenants \cup {"invalid"}, text : Texts]
    BY <1>2 DEF TenantMessages
  <2> QED  BY <1>2, <2>1
<1>3. CASE p = "ResolveTenantSubdomain"
  <2>1. message \in [subdomain : Named]
    BY <1>3 DEF TenantMessages
  <2> QED  BY <1>3, <2>1
<1>4. CASE p = "ChangeTenantContract"
  <2>1. message \in [tenant : Named, plan : {Blank, "second"}]
    BY <1>4 DEF TenantMessages
  <2> QED  BY <1>4, <2>1 DEF Plans
<1>5. CASE p = "ArchiveTenant"
  <2>1. message \in [tenant : Named]
    BY <1>5 DEF TenantMessages
  <2> QED  BY <1>5, <2>1
<1>6. CASE p = "CreateEvent"
  <2>1. message \in [tenant : Named, text : {Blank, "given"}]
    BY <1>6 DEF TenantMessages
  <2> QED  BY <1>6, <2>1
<1>7. CASE p = "TransitionEventStatus"
  <2>1. PICK S : message \in [event : Named, to : S]
    BY <1>7 DEF TenantMessages
  <2> QED  BY <1>7, <2>1
<1>8. CASE p = "GetEvent"
  <2>1. message \in [event : Named]
    BY <1>8 DEF TenantMessages
  <2> QED  BY <1>8, <2>1
<1>9. CASE p = "ListEvents"
  <2>1. message \in [tenant : Named, all : BOOLEAN]
    BY <1>9 DEF TenantMessages
  <2> QED  BY <1>9, <2>1
<1> QED  BY <1>1, <1>2, <1>3, <1>4, <1>5, <1>6, <1>7, <1>8, <1>9 DEF TenantProcedures

\* A number without a name is read as unspecified, a name as its status.
LEMMA StatusOrUnspecified ==
    ASSUME NEW wire
    PROVE  eventStatusDomain(wire) \in Statuses \cup {"unspecified"}
<1> DEFINE named == {s \in DOMAIN StatusNames : StatusNames[s] = wire}
<1>1. DOMAIN StatusNames = Statuses
  BY DEF StatusNames, Statuses
<1>2. CASE named = {}
  BY <1>2 DEF eventStatusDomain
<1>3. CASE named # {}
  <2>1. (CHOOSE s \in named : TRUE) \in named
    BY <1>3
  <2> QED  BY <1>1, <1>3, <2>1 DEF eventStatusDomain
<1> QED  BY <1>2, <1>3

LEMMA TenantFieldsFit ==
    ASSUME NEW p \in TenantProcedures, NEW token, NEW message \in TenantMessages(p)
    PROVE  FieldsFit(TenantInput(p, token, message))
<1> DEFINE r == TenantInput(p, token, message)
<1>1. /\ DOMAIN r = Fields /\ r.proc = p
      /\ \A f \in Fields \ {"proc", "token", "to"} :
            r[f] = IF f \in DOMAIN message THEN message[f] ELSE Empty[f]
      /\ r.to \in Statuses \cup {"unspecified"}
  BY TenantInputFields, StatusOrUnspecified
<1> SUFFICES FieldsFit(r)
  OBVIOUS
<1> HIDE DEF r
<1>2. {"http", "bound", "tenant", "event", "user", "secret", "plan", "subdomain"}
         \subseteq Fields \ {"proc", "token", "to"}
  BY DEF Fields
<1> DEFINE Of(f) == IF f \in DOMAIN message THEN message[f] ELSE Empty[f]
<1>3. /\ r.http = Of("http") /\ r.bound = Of("bound") /\ r.tenant = Of("tenant")
      /\ r.event = Of("event") /\ r.user = Of("user") /\ r.secret = Of("secret")
      /\ r.plan = Of("plan") /\ r.subdomain = Of("subdomain")
  BY <1>1, <1>2
<1>4. MessageFits(p, message)
  BY TenantMessageFits
<1> QED  BY <1>1, <1>3, <1>4, EmptyFields DEF FieldsFit, MessageFits, Named, Asked

-----------------------------------------------------------------------------
(* What the checks let through *)

LEMMA BothPass ==
    ASSUME NEW a, NEW b, a ++ b = NoError
    PROVE  a = NoError /\ b = NoError
  BY DEF ++

LEMMA ChecksPass ==
    ASSUME NEW r
    PROVE  /\ UserGiven(r) = NoError => r.user # Blank
           /\ Grantable(r) = NoError => r.role \in GrantableRoles
           /\ TenantGiven(r) = NoError => r.tenant # Blank
           /\ EventGiven(r) = NoError => r.event # Blank
           /\ InTenant(r) = NoError =>
                 r.tenant # Blank /\ TenantPublicIDFromContext(r) = r.tenant
<1> USE DEF FailIf, NoError
<1>1. UserGiven(r) = NoError => r.user # Blank
  BY DEF UserGiven
<1>2. Grantable(r) = NoError => r.role \in GrantableRoles
  BY BothPass DEF Grantable
<1>3. TenantGiven(r) = NoError => r.tenant # Blank
  BY DEF TenantGiven
<1>4. EventGiven(r) = NoError => r.event # Blank
  BY DEF EventGiven
<1>5. \A t : Ensure(r, t) = NoError =>
         TenantPublicIDFromContext(r) = t /\ TenantPublicIDFromContext(r) # Blank
  BY BothPass DEF Ensure
<1>6. InTenant(r) = NoError => r.tenant # Blank /\ TenantPublicIDFromContext(r) = r.tenant
  BY <1>3, <1>5, BothPass DEF InTenant
<1> QED  BY <1>1, <1>2, <1>3, <1>4, <1>6, Zenon

\* A request that has been let in, whatever it is about to do.
Admitted(r) ==
    /\ DOMAIN r = Fields
    /\ r.proc \in RelationProcedures \cup TenantProcedures
    /\ TokenFits(r.proc, r.token)
    /\ r.http \in BOOLEAN
    /\ r.http = TRUE => /\ r.proc = "ListMemberships"
                        /\ r.bound = r.tenant
                        /\ r.token.tenant = Blank
    /\ r.http = FALSE => r.bound = Blank
    /\ r.tenant \in Named /\ r.event \in Named /\ r.user \in Asked
    /\ r.event # Blank => r.proc \in EventProcedures
    /\ r.proc \in {"GrantEventRole", "TransitionEventStatus", "GetEvent"} => r.event # Blank
    /\ r.proc \in {"ClaimTenantOwnership", "AcceptTenantInvitation"} =>
          r.tenant # Blank /\ r.secret \in {"right", "wrong"}
    /\ r.proc = "StartTenantRegistration" => r.tenant = Blank
    /\ r.proc = "ResolveTenantSubdomain" => r.tenant = Blank /\ r.subdomain \in Tenants
    /\ r.proc \notin Unscoped /\ r.event = Blank =>
          r.tenant # Blank /\ TenantPublicIDFromContext(r) = r.tenant
    /\ r.proc \in {"AddTenantMember", "ChangeTenantRole", "GrantEventRole", "RevokeRole"} =>
          r.user # Blank
    /\ r.proc \in {"AddTenantMember", "ChangeTenantRole", "GrantEventRole"} =>
          r.role \in GrantableRoles
    /\ r.proc \in {"StartTenantRegistration", "ChangeTenantContract"} => r.plan \in Plans
    /\ r.proc = "TransitionEventStatus" => r.to \in Statuses

LEMMA RelationAdmitted ==
    ASSUME NEW r, r.proc \in RelationProcedures, FieldsFit(r), TokenFits(r.proc, r.token),
           RelationChecks(r) = NoError
    PROVE  Admitted(InContext(r))
<1> USE ChecksPass, BothPass
<1>1. CASE r.proc = "AddTenantMember"
  <2>1. UserGiven(r) = NoError /\ Grantable(r) = NoError /\ InTenant(r) = NoError
    BY <1>1 DEF RelationChecks
  <2>2. InContext(r) = r
    BY <1>1 DEF InContext
  <2> QED  BY <1>1, <2>1, <2>2 DEF Admitted, FieldsFit, EventProcedures, Unscoped
<1>2. CASE r.proc = "ChangeTenantRole"
  <2>1. UserGiven(r) = NoError /\ Grantable(r) = NoError /\ InTenant(r) = NoError
    BY <1>2 DEF RelationChecks
  <2>2. InContext(r) = r
    BY <1>2 DEF InContext
  <2> QED  BY <1>2, <2>1, <2>2 DEF Admitted, FieldsFit, EventProcedures, Unscoped
<1>3. CASE r.proc = "GrantEventRole"
  <2>1. UserGiven(r) = NoError /\ Grantable(r) = NoError /\ EventGiven(r) = NoError
    BY <1>3 DEF RelationChecks
  <2>2. InContext(r) = r
    BY <1>3 DEF InContext
  <2> QED  BY <1>3, <2>1, <2>2 DEF Admitted, FieldsFit, EventProcedures, Unscoped
<1>4. CASE r.proc = "RevokeRole"
  <2> DEFINE c == CASE r.tenant # Blank /\ r.event # Blank -> {"ErrScopeAmbiguous"}
                    [] r.tenant # Blank /\ r.event = Blank -> InTenant(r)
                    [] r.tenant = Blank /\ r.event # Blank -> NoError
                    [] OTHER -> {"ErrScopeRequired"}
  <2>1. RelationChecks(r) = UserGiven(r) ++ c
    BY <1>4 DEF RelationChecks
  <2> HIDE DEF c
  <2>2. UserGiven(r) = NoError /\ c = NoError
    BY <2>1
  <2>3. r.event # Blank \/ InTenant(r) = NoError
    BY <2>2 DEF c, NoError
  <2>4. InContext(r) = r
    BY <1>4 DEF InContext
  <2> QED  BY <1>4, <2>2, <2>3, <2>4 DEF Admitted, FieldsFit, EventProcedures, Unscoped
<1>5. CASE r.proc = "CreateTenantInvitation"
  <2>1. InTenant(r) = NoError
    BY <1>5 DEF RelationChecks
  <2>2. InContext(r) = r
    BY <1>5 DEF InContext
  <2> QED  BY <1>5, <2>1, <2>2 DEF Admitted, FieldsFit, EventProcedures, Unscoped
<1>6. CASE r.proc = "ListTenantInvitations"
  <2>1. InTenant(r) = NoError
    BY <1>6 DEF RelationChecks
  <2>2. InContext(r) = r
    BY <1>6 DEF InContext
  <2> QED  BY <1>6, <2>1, <2>2 DEF Admitted, FieldsFit, EventProcedures, Unscoped
<1>7. CASE r.proc = "RevokeTenantInvitation"
  <2>1. InTenant(r) = NoError
    BY <1>7 DEF RelationChecks
  <2>2. InContext(r) = r
    BY <1>7 DEF InContext
  <2> QED  BY <1>7, <2>1, <2>2 DEF Admitted, FieldsFit, EventProcedures, Unscoped
<1>8. CASE r.proc = "AcceptTenantInvitation"
  <2>1. TenantGiven(r) = NoError /\ FailIf(r.secret = Blank, "ErrInvitationTokenRequired") = NoError
    BY <1>8 DEF RelationChecks
  <2>2. r.secret # Blank
    BY <2>1 DEF FailIf, NoError
  <2>3. InContext(r) = r
    BY <1>8 DEF InContext
  <2> QED  BY <1>8, <2>1, <2>2, <2>3 DEF Admitted, FieldsFit, EventProcedures, Unscoped
<1>9. CASE r.proc = "ListMemberships"
  <2>1. RelationChecks(r) = CASE r.tenant # Blank /\ r.user # Blank -> {"ErrFilterAmbiguous"}
               [] r.tenant # Blank /\ r.user = Blank -> InTenant(r)
               [] r.tenant = Blank /\ r.user # Blank ->
                     FailIf(TenantPublicIDFromContext(r) = Blank, "ErrMissing")
               [] OTHER -> {"ErrFilterRequired"}
    BY <1>9 DEF RelationChecks
  <2>2. \/ r.tenant # Blank /\ InTenant(r) = NoError
        \/ r.tenant = Blank /\ TenantPublicIDFromContext(r) # Blank
    BY <2>1 DEF FailIf, NoError
  <2>3. CASE r.tenant # Blank
    <3>1. InContext(r) = r
      BY <2>3 DEF InContext
    <3> QED  BY <1>9, <2>2, <2>3, <3>1 DEF Admitted, FieldsFit, EventProcedures, Unscoped
  <2>4. CASE r.tenant = Blank
    <3> DEFINE c == InContext(r)
    <3>1. c = [r EXCEPT !.tenant = TenantPublicIDFromContext(r)]
      BY <1>9, <2>4 DEF InContext
    <3>2. DOMAIN r = Fields /\ "tenant" \in Fields
      BY DEF FieldsFit, Fields
    <3>3. /\ DOMAIN c = Fields /\ c.tenant = TenantPublicIDFromContext(r)
          /\ c.proc = r.proc /\ c.token = r.token /\ c.http = r.http /\ c.bound = r.bound
          /\ c.event = r.event /\ c.user = r.user
      BY <3>1, <3>2 DEF Fields
    <3> HIDE DEF c
    <3>4. TenantPublicIDFromContext(c) = TenantPublicIDFromContext(r)
      BY <3>3 DEF TenantPublicIDFromContext
    <3>5. c.tenant \in Tenants
      BY <2>2, <2>4, <3>3, BoundaryAssumption DEF TenantPublicIDFromContext, FieldsFit, TokenFits
    <3>6. Admitted(c)
      BY <1>9, <2>2, <2>4, <3>3, <3>4, <3>5, BoundaryAssumption
         DEF Admitted, FieldsFit, EventProcedures, Unscoped, Named
    <3> QED  BY <3>6 DEF c
  <2> QED  BY <2>3, <2>4
<1> QED  BY <1>1, <1>2, <1>3, <1>4, <1>5, <1>6, <1>7, <1>8, <1>9 DEF RelationProcedures

LEMMA TenantAdmitted ==
    ASSUME NEW r, r.proc \in TenantProcedures, FieldsFit(r), TokenFits(r.proc, r.token),
           TenantChecks(r) = NoError
    PROVE  Admitted(r)
<1> USE ChecksPass, BothPass
<1>1. CASE r.proc = "StartTenantRegistration"
  <2>1. FailIf(r.plan = Blank, "ErrTenantContractPlanRequired") = NoError
    BY <1>1 DEF TenantChecks
  <2>2. r.plan # Blank
    BY <2>1 DEF FailIf, NoError
  <2> QED  BY <1>1, <2>2 DEF Admitted, FieldsFit, EventProcedures, Unscoped
<1>2. CASE r.proc = "ClaimTenantOwnership"
  <2>1. TenantGiven(r) = NoError /\ FailIf(r.secret = Blank, "ErrOwnershipClaimTokenRequired") = NoError
    BY <1>2 DEF TenantChecks
  <2>2. r.secret # Blank
    BY <2>1 DEF FailIf, NoError
  <2> QED  BY <1>2, <2>1, <2>2 DEF Admitted, FieldsFit, EventProcedures, Unscoped
<1>3. CASE r.proc = "ResolveTenantSubdomain"
  <2>1. FailIf(r.subdomain = Blank, "ErrSubdomainRequired") = NoError
    BY <1>3 DEF TenantChecks
  <2>2. r.subdomain # Blank
    BY <2>1 DEF FailIf, NoError
  <2> QED  BY <1>3, <2>2 DEF Admitted, FieldsFit, EventProcedures, Unscoped, Named
<1>4. CASE r.proc = "ChangeTenantContract"
  <2>1. FailIf(r.plan = Blank, "ErrTenantContractPlanRequired") = NoError /\ InTenant(r) = NoError
    BY <1>4 DEF TenantChecks
  <2>2. r.plan # Blank
    BY <2>1 DEF FailIf, NoError
  <2> QED  BY <1>4, <2>1, <2>2 DEF Admitted, FieldsFit, EventProcedures, Unscoped
<1>5. CASE r.proc = "ArchiveTenant"
  <2>1. InTenant(r) = NoError
    BY <1>5 DEF TenantChecks
  <2> QED  BY <1>5, <2>1 DEF Admitted, FieldsFit, EventProcedures, Unscoped
<1>6. CASE r.proc = "CreateEvent"
  <2>1. InTenant(r) = NoError
    BY <1>6 DEF TenantChecks
  <2> QED  BY <1>6, <2>1 DEF Admitted, FieldsFit, EventProcedures, Unscoped
<1>7. CASE r.proc = "TransitionEventStatus"
  <2>1. EventGiven(r) = NoError /\ FailIf(r.to = "unspecified", "ErrEventStatusRequired") = NoError
    BY <1>7 DEF TenantChecks
  <2>2. r.to # "unspecified"
    BY <2>1 DEF FailIf, NoError
  <2> QED  BY <1>7, <2>1, <2>2 DEF Admitted, FieldsFit, EventProcedures, Unscoped
<1>8. CASE r.proc = "GetEvent"
  <2>1. EventGiven(r) = NoError
    BY <1>8 DEF TenantChecks
  <2> QED  BY <1>8, <2>1 DEF Admitted, FieldsFit, EventProcedures, Unscoped
<1>9. CASE r.proc = "ListEvents"
  <2>1. InTenant(r) = NoError
    BY <1>9 DEF TenantChecks
  <2> QED  BY <1>9, <2>1 DEF Admitted, FieldsFit, EventProcedures, Unscoped
<1> QED  BY <1>1, <1>2, <1>3, <1>4, <1>5, <1>6, <1>7, <1>8, <1>9 DEF TenantProcedures

HttpInput(tenant, user) ==
    WithTenantPublicID([Empty EXCEPT !.proc = "ListMemberships", !.http = TRUE, !.user = user],
                       tenant)

LEMMA HttpAdmitted ==
    ASSUME NEW tenant \in Tenants, NEW user \in Users
    PROVE  /\ Admitted(InContext(HttpInput(tenant, user)))
           /\ RelationChecks(HttpInput(tenant, user)) = NoError
<1> DEFINE r == HttpInput(tenant, user)
<1>1. r = [[Empty EXCEPT !.proc = "ListMemberships", !.http = TRUE, !.user = user]
              EXCEPT !.bound = tenant]
  BY DEF HttpInput, WithTenantPublicID
<1>2. {"proc", "http", "user", "bound", "tenant", "token", "event"} \subseteq Fields
  BY DEF Fields
<1>3. /\ DOMAIN r = Fields /\ r.proc = "ListMemberships" /\ r.http = TRUE /\ r.user = user
      /\ r.bound = tenant /\ r.tenant = Blank /\ r.event = Blank /\ r.token = Empty.token
  BY <1>1, <1>2, EmptyFields
<1>4. Empty.token = NoToken
  BY DEF Empty
<1>5. r.token.tenant = Blank
  BY <1>3, <1>4 DEF NoToken
<1> HIDE DEF r
<1>6. TenantPublicIDFromContext(r) = tenant
  BY <1>3, <1>5 DEF TenantPublicIDFromContext
<1> DEFINE c == InContext(r)
<1>7. c = [r EXCEPT !.tenant = tenant]
  BY <1>3, <1>6 DEF InContext
<1>8. /\ DOMAIN c = Fields /\ c.proc = "ListMemberships" /\ c.http = TRUE /\ c.user = user
      /\ c.bound = tenant /\ c.tenant = tenant /\ c.event = Blank /\ c.token = r.token
  BY <1>2, <1>3, <1>7
<1> HIDE DEF c
<1>9. TenantPublicIDFromContext(c) = tenant
  BY <1>5, <1>8 DEF TenantPublicIDFromContext
<1>10. TokenFits(c.proc, c.token)
  BY <1>5, <1>8 DEF TokenFits, Unscoped
<1>11. Admitted(c)
  BY <1>5, <1>8, <1>9, <1>10, BoundaryAssumption
     DEF Admitted, Named, Asked, EventProcedures, Unscoped, RelationProcedures
<1>12. RelationChecks(r) = FailIf(TenantPublicIDFromContext(r) = Blank, "ErrMissing")
  BY <1>3, BoundaryAssumption DEF RelationChecks
<1>13. RelationChecks(r) = NoError
  BY <1>6, <1>12, BoundaryAssumption DEF FailIf
<1> QED  BY <1>11, <1>13 DEF c, r

-----------------------------------------------------------------------------
(* The request on its way *)

Underway == stage \notin {"idle", "answered"}

\* Which request can be at which statement, and that the event's tenant has
\* been compared with the caller's once its row has been read.
Placed ==
    /\ stage \in {"event", "tenant", "role", "read", "memberships", "eventRoles", "write"}
    /\ stage = "event" => req.event # Blank
    /\ stage # "event" /\ req.event # Blank =>
          /\ req.proc # "GetEvent"
          /\ TenantPublicIDFromContext(req) = req.event
          /\ req.proc # "TransitionEventStatus" => req.tenant = req.event
    /\ stage = "tenant" =>
          req.proc \notin {"StartTenantRegistration", "ClaimTenantOwnership",
                           "ResolveTenantSubdomain", "ChangeTenantContract",
                           "ArchiveTenant", "TransitionEventStatus", "GetEvent"}
    /\ stage = "role" => req.proc = "CreateEvent"
    /\ stage = "read" =>
          req.proc \in {"ListEvents", "ListTenantInvitations", "ResolveTenantSubdomain"}
    /\ stage \in {"memberships", "eventRoles"} =>
          req.proc \in {"ListMemberships", "AddTenantMember"}
    /\ stage = "write" => req.proc \notin Reads

RequestInv == Underway => Admitted(req) /\ Placed

LEMMA OthersLeave ==
    ASSUME Others
    PROVE  stage # "answered" /\ UNCHANGED <<stage, req, seen, answer, locked, fate>>
<1>1. \A d, touched : OthersWrite(d, touched) =>
         stage # "answered" /\ UNCHANGED <<stage, req, seen, answer, locked, fate>>
  BY DEF OthersWrite
<1> HIDE DEF OthersWrite
<1> QED  BY <1>1, Zenon
         DEF Others, OthersRegister, OthersSweep, OthersArchive, OthersClaim, OthersCreateEvent,
             OthersSetRole, OthersSetEventRole, OthersTransition, OthersInvite

\* A request is refused at once or starts at its first statement.
LEMMA ServeStarts ==
    ASSUME NEW r, NEW failure, Serve(r, failure), failure = NoError => Admitted(r)
    PROVE  /\ RequestInv'
           /\ failure # NoError => stage' = "answered" /\ answer'.body = {}
<1>1. CASE failure # NoError
  <2>1. stage' = "answered" /\ answer' = [code |-> CodeOf(r, failure), body |-> {}]
    BY <1>1 DEF Serve, Refuse, Respond
  <2> QED  BY <1>1, <2>1 DEF RequestInv, Underway
<1>2. CASE failure = NoError
  <2>1. stage' = FirstStage(r) /\ req' = r /\ Admitted(r)
    BY <1>2 DEF Serve
  <2>2. CASE r.event # Blank
    <3>1. FirstStage(r) = "event"
      BY <2>1, <2>2 DEF FirstStage, Admitted, EventProcedures
    <3> QED  BY <1>2, <2>1, <2>2, <3>1 DEF RequestInv, Placed
  <2>3. CASE r.event = Blank
    <3>1. FirstStage(r) = CASE r.proc = "ResolveTenantSubdomain" -> "read"
               [] r.proc \in {"StartTenantRegistration", "ClaimTenantOwnership",
                              "ChangeTenantContract", "ArchiveTenant"} -> "write"
               [] OTHER -> "tenant"
      BY <2>3 DEF FirstStage
    <3> QED  BY <1>2, <2>1, <2>3, <3>1 DEF RequestInv, Placed, Admitted, Reads
  <2> QED  BY <2>2, <2>3
<1> QED  BY <1>1, <1>2

\* The four ways in.
Arrive ==
    \/ \E token \in Tokens :
          \/ \E p \in RelationProcedures : ReceiveRelation(p, token)
          \/ \E p \in TenantProcedures : ReceiveTenant(p, token)
          \/ ReceiveUnverifiable(token)
    \/ \E t \in Named, u \in Asked : ReceiveHttp(t, u)

\* What arrives is refused, or let in by its transport and its checks.
LEMMA ArriveServes ==
    ASSUME Arrive
    PROVE  /\ stage = "idle"
           /\ \/ \E code : Refuse(code)
              \/ \E r, failure : Serve(r, failure) /\ (failure = NoError => Admitted(r))
<1>1. ASSUME NEW token \in Tokens, NEW p \in RelationProcedures, ReceiveRelation(p, token)
      PROVE  stage = "idle" /\ \/ \E code : Refuse(code)
                               \/ \E r, failure : Serve(r, failure) /\ (failure = NoError => Admitted(r))
  <2>1. CASE Admit(RelationAdminServicePolicies[p], token) # "ok"
    BY <1>1, <2>1 DEF ReceiveRelation
  <2>2. CASE Admit(RelationAdminServicePolicies[p], token) = "ok"
    <3>1. PICK message \in RelationMessages(p) :
             Serve(InContext(RelationInput(p, token, message)),
                   RelationChecks(RelationInput(p, token, message)))
      BY <1>1, <2>2 DEF ReceiveRelation
    <3> DEFINE r == RelationInput(p, token, message)
    <3>2. r.proc = p /\ r.token = token
      BY RelationInputFields
    <3>3. FieldsFit(r) /\ TokenFits(p, token)
      BY <2>2, RelationFieldsFit, RelationTokenFits
    <3>4. Serve(InContext(r), RelationChecks(r))
      BY <3>1
    <3> HIDE DEF r
    <3>5. RelationChecks(r) = NoError => Admitted(InContext(r))
      BY <3>2, <3>3, RelationAdmitted
    <3> QED  BY <1>1, <3>4, <3>5, Zenon DEF ReceiveRelation
  <2> QED  BY <2>1, <2>2
<1>2. ASSUME NEW token \in Tokens, NEW p \in TenantProcedures, ReceiveTenant(p, token)
      PROVE  stage = "idle" /\ \/ \E code : Refuse(code)
                               \/ \E r, failure : Serve(r, failure) /\ (failure = NoError => Admitted(r))
  <2>1. CASE Admit(TenantServicePolicies[p], token) # "ok"
    BY <1>2, <2>1 DEF ReceiveTenant
  <2>2. CASE Admit(TenantServicePolicies[p], token) = "ok"
    <3> DEFINE claims == Claims(TenantServicePolicies[p], token)
    <3>1. PICK message \in TenantMessages(p) :
             Serve(TenantInput(p, claims, message), TenantChecks(TenantInput(p, claims, message)))
      BY <1>2, <2>2 DEF ReceiveTenant
    <3> DEFINE r == TenantInput(p, claims, message)
    <3>2. r.proc = p /\ r.token = claims
      BY TenantInputFields
    <3>3. FieldsFit(r) /\ TokenFits(p, claims)
      BY <2>2, TenantFieldsFit, TenantTokenFits
    <3>4. Serve(r, TenantChecks(r))
      BY <3>1
    <3> HIDE DEF r
    <3>5. TenantChecks(r) = NoError => Admitted(r)
      BY <3>2, <3>3, TenantAdmitted
    <3> QED  BY <1>2, <3>4, <3>5, Zenon DEF ReceiveTenant
  <2> QED  BY <2>1, <2>2
<1>3. ASSUME NEW token \in Tokens, ReceiveUnverifiable(token)
      PROVE  stage = "idle" /\ \E code : Refuse(code)
  BY <1>3, Zenon DEF ReceiveUnverifiable
<1>4. ASSUME NEW t \in Named, NEW u \in Asked, ReceiveHttp(t, u)
      PROVE  stage = "idle" /\ \/ \E code : Refuse(code)
                               \/ \E r, failure : Serve(r, failure) /\ (failure = NoError => Admitted(r))
  <2>1. CASE Blank \in {t, u}
    BY <1>4, <2>1, Zenon DEF ReceiveHttp
  <2>2. CASE Blank \notin {t, u}
    <3>1. Serve(InContext(HttpInput(t, u)), RelationChecks(HttpInput(t, u)))
      BY <1>4, <2>2 DEF ReceiveHttp, HttpInput
    <3>2. t \in Tenants /\ u \in Users
      BY <2>2 DEF Named, Asked
    <3>3. Admitted(InContext(HttpInput(t, u)))
      BY <3>2, HttpAdmitted
    <3> QED  BY <1>4, <3>1, <3>3, Zenon DEF ReceiveHttp
  <2> QED  BY <2>1, <2>2
<1> QED  BY <1>1, <1>2, <1>3, <1>4, Zenon DEF Arrive

\* The context of a request that is scoped names what its caller may see.
LEMMA VisibleIsContext ==
    ASSUME NEW r, Admitted(r), r.proc \notin Unscoped,
           TenantPublicIDFromContext(r) # Blank
    PROVE  TenantPublicIDFromContext(r) \in Visible(r)
<1>1. CASE r.http = TRUE
  <2>1. Visible(r) = {r.bound}
    BY <1>1 DEF Visible, Admitted
  <2> QED  BY <1>1, <2>1 DEF Admitted, TenantPublicIDFromContext
<1>2. CASE r.http = FALSE
  <2>1. r.token.tenant # Blank /\ TenantPublicIDFromContext(r) = r.token.tenant
    BY <1>2 DEF Admitted, TenantPublicIDFromContext
  <2>2. Visible(r) = {r.token.tenant}
    BY <1>2, <2>1 DEF Visible, Unscoped
  <2> QED  BY <2>1, <2>2
<1> QED  BY <1>1, <1>2 DEF Admitted

\* Past the event gate a scoped request acts on the tenant of its context.
LEMMA TargetIsContext ==
    ASSUME RequestInv, Underway, stage # "event", req.proc \notin Unscoped
    PROVE  /\ Target(req) \in Tenants
           /\ TenantPublicIDFromContext(req) = Target(req)
           /\ Target(req) \in Visible(req)
           /\ req.proc # "TransitionEventStatus" => req.tenant = Target(req)
<1>1. Admitted(req) /\ Placed
  BY DEF RequestInv
<1>2. /\ Target(req) # Blank
      /\ TenantPublicIDFromContext(req) = Target(req)
      /\ req.proc # "TransitionEventStatus" => req.tenant = Target(req)
  BY <1>1 DEF Admitted, Placed, Target
<1>3. Target(req) \in Tenants
  BY <1>1, <1>2 DEF Admitted, Target, Named
<1> QED  BY <1>1, <1>2, <1>3, VisibleIsContext

LEMMA RowTenants ==
    /\ \A d, t : tenantProto(d, t).tenantId = t
    /\ \A d, t : eventProto(d, t).tenantId = t
    /\ \A t : invitationProto(t).tenantId = t
    /\ \A r, t, u, role, eventRole : MembershipOf(r, t, u, role, eventRole).tenantId = t
    /\ \A t, u, role, eventRole : membershipProto(t, u, role, eventRole).tenantId = t
<1>1. \A d, t : tenantProto(d, t).tenantId = t
  BY Zenon DEF tenantProto
<1>2. \A d, t : eventProto(d, t).tenantId = t
  BY Zenon DEF eventProto
<1>3. \A t : invitationProto(t).tenantId = t
  BY Zenon DEF invitationProto
<1>4. \A t, u, role, eventRole : membershipProto(t, u, role, eventRole).tenantId = t
  BY Zenon DEF membershipProto
<1>5. \A t, u, role, eventRole : membershipsBody(t, u, role, eventRole).tenantId = t
  BY Zenon DEF membershipsBody
<1>6. \A r, t, u, role, eventRole : MembershipOf(r, t, u, role, eventRole).tenantId = t
  BY <1>4, <1>5 DEF MembershipOf
<1> QED  BY <1>1, <1>2, <1>3, <1>4, <1>6, Zenon

LEMMA EmptyAnswer ==
    ASSUME NEW code, NEW r, Respond(code, {}, r)
    PROVE  RequestInv' /\ AnswersStayInTenant'
<1>1. stage' = "answered" /\ answer'.body = {}
  BY DEF Respond
<1> QED  BY <1>1 DEF RequestInv, Underway, AnswersStayInTenant

LEMMA FullAnswer ==
    ASSUME NEW r, NEW body, Answer(r, body), \A row \in body : row.tenantId \in Visible(r)
    PROVE  RequestInv' /\ AnswersStayInTenant'
<1>1. stage' = "answered" /\ req' = r /\ answer'.body = body
  BY DEF Answer, Respond
<1> QED  BY <1>1 DEF RequestInv, Underway, AnswersStayInTenant

\* What the gate on an event has compared.
LEMMA EventGatePassed ==
    ASSUME NEW r, EventGate(r) = NoError
    PROVE  TenantPublicIDFromContext(r) = r.event
<1>1. Ensure(r, r.event) = NoError
  BY BothPass DEF EventGate
<1> QED  BY <1>1, BothPass DEF Ensure, FailIf, NoError

LEMMA FindEventStep ==
    ASSUME RequestInv, FindEvent
    PROVE  RequestInv' /\ AnswersStayInTenant'
<1>1. Admitted(req) /\ Placed /\ stage = "event" /\ req.event # Blank /\ req.event \in Tenants
  BY DEF RequestInv, FindEvent, Underway, Placed, Admitted, Named
<1>2. CASE EventGate(req) # NoError
  <2>1. \E code, r : Respond(code, {}, r)
    BY <1>2 DEF FindEvent, Reject
  <2> QED  BY <2>1, EmptyAnswer
<1>3. CASE EventGate(req) = NoError /\ req.proc = "GetEvent"
  <2>1. Answer(req, {eventProto(db, req.event)})
    BY <1>3 DEF FindEvent
  <2>2. req.event \in Visible(req)
    BY <1>1, <1>3, EventGatePassed, VisibleIsContext DEF Unscoped
  <2> QED  BY <2>1, <2>2, FullAnswer, RowTenants
<1>4. CASE EventGate(req) = NoError /\ req.proc = "TransitionEventStatus"
  <2>1. stage' = "write" /\ req' = req
    BY <1>4 DEF FindEvent, Goto
  <2> QED  BY <1>1, <1>4, <2>1, EventGatePassed
           DEF RequestInv, Underway, Placed, AnswersStayInTenant, Reads
<1>5. CASE EventGate(req) = NoError /\ req.proc \notin {"GetEvent", "TransitionEventStatus"}
  <2>1. stage' = "tenant" /\ req' = [req EXCEPT !.tenant = req.event]
    BY <1>5 DEF FindEvent, Goto
  <2>2. DOMAIN req = Fields /\ "tenant" \in Fields
    BY <1>1 DEF Admitted, Fields
  <2>3. DOMAIN req' = Fields /\ req'.tenant = req.event
    BY <2>1, <2>2
  <2>4. \A f \in Fields \ {"tenant"} : req'[f] = req[f]
    BY <2>1, <2>2
  <2>5. req.proc \in {"GrantEventRole", "RevokeRole"}
    BY <1>1, <1>5 DEF Admitted, EventProcedures
  <2>6. /\ req'.proc = req.proc /\ req'.token = req.token /\ req'.http = req.http
        /\ req'.bound = req.bound /\ req'.event = req.event /\ req'.user = req.user
        /\ req'.role = req.role
    BY <2>4 DEF Fields
  <2>7. TenantPublicIDFromContext(req') = TenantPublicIDFromContext(req)
    BY <2>6 DEF TenantPublicIDFromContext
  <2>8. Admitted(req')
    BY <1>1, <2>3, <2>5, <2>6, <2>7 DEF Admitted, Named
  <2>9. Placed'
    BY <1>1, <1>5, <2>1, <2>3, <2>5, <2>6, <2>7, EventGatePassed DEF Placed
  <2> QED  BY <2>1, <2>8, <2>9 DEF RequestInv, AnswersStayInTenant
<1> QED  BY <1>2, <1>3, <1>4, <1>5

LEMMA FindTenantStep ==
    ASSUME RequestInv, FindTenant
    PROVE  RequestInv' /\ AnswersStayInTenant'
<1>1. Admitted(req) /\ Placed /\ stage = "tenant"
  BY DEF RequestInv, FindTenant, Underway
<1>2. CASE TenantGate(req) # NoError
  <2>1. \E code, r : Respond(code, {}, r)
    BY <1>2 DEF FindTenant, Reject
  <2> QED  BY <2>1, EmptyAnswer
<1>3. CASE TenantGate(req) = NoError
  <2>1. stage' = AfterTenant(req) /\ req' = req
    BY <1>3 DEF FindTenant, Goto
  <2>2. /\ stage' \in {"memberships", "read", "role", "write"}
        /\ stage' = "memberships" => req.proc = "ListMemberships"
        /\ stage' = "read" => req.proc \in {"ListTenantInvitations", "ListEvents"}
        /\ stage' = "role" => req.proc = "CreateEvent"
        /\ stage' = "write" => req.proc \notin {"ListMemberships", "ListTenantInvitations",
                                                "ListEvents", "CreateEvent"}
    BY <2>1 DEF AfterTenant
  <2>3. Placed'
    BY <1>1, <2>1, <2>2 DEF Placed, Reads
  <2> QED  BY <1>1, <2>1, <2>2, <2>3 DEF RequestInv, AnswersStayInTenant
<1> QED  BY <1>2, <1>3

LEMMA ReadStep ==
    ASSUME RequestInv, Read
    PROVE  RequestInv' /\ AnswersStayInTenant'
<1>1. /\ Admitted(req) /\ Placed /\ stage = "read"
      /\ req.proc \in {"ListEvents", "ListTenantInvitations", "ResolveTenantSubdomain"}
  BY DEF RequestInv, Read, Underway, Placed
<1>2. CASE req.proc = "ResolveTenantSubdomain" /\ Found(req) = {}
  <2>1. \E code, r : Respond(code, {}, r)
    BY <1>2 DEF Read, Reject
  <2> QED  BY <2>1, EmptyAnswer
<1>3. CASE ~(req.proc = "ResolveTenantSubdomain" /\ Found(req) = {})
  <2>1. Answer(req, Found(req))
    BY <1>3 DEF Read
  <2>2. CASE req.proc = "ListEvents"
    <3>1. Found(req) \subseteq {eventProto(db, req.tenant)}
      BY <2>2 DEF Found
    <3>2. req.tenant \in Visible(req)
      BY <1>1, <2>2, TargetIsContext DEF Underway, Unscoped
    <3> QED  BY <2>1, <3>1, <3>2, RowTenants, FullAnswer
  <2>3. CASE req.proc = "ListTenantInvitations"
    <3>1. Found(req) \subseteq {invitationProto(req.tenant)}
      BY <2>3 DEF Found
    <3>2. req.tenant \in Visible(req)
      BY <1>1, <2>3, TargetIsContext DEF Underway, Unscoped
    <3> QED  BY <2>1, <3>1, <3>2, RowTenants, FullAnswer
  <2>4. CASE req.proc = "ResolveTenantSubdomain"
    <3>1. Found(req) = {[tenantId |-> req.subdomain] : s \in {"owned", "archived"} \cap {db.tenant[req.subdomain]}}
      BY <2>4 DEF Found
    <3>2. \A row \in Found(req) : row.tenantId = req.subdomain
      BY <3>1
    <3>3. req.http = FALSE /\ req.token.tenant = Blank
      BY <1>1, <2>4 DEF Admitted, TokenFits, Unscoped
    <3>4. Visible(req) = {req.subdomain}
      BY <2>4, <3>3 DEF Visible
    <3> QED  BY <2>1, <3>2, <3>4, FullAnswer
  <2> QED  BY <1>1, <2>2, <2>3, <2>4
<1> QED  BY <1>2, <1>3

LEMMA ReadMembershipsStep ==
    ASSUME RequestInv, ReadMemberships
    PROVE  RequestInv' /\ AnswersStayInTenant'
<1> DEFINE rows == {u \in Users : /\ req.user \in {u, Blank}
                                  /\ db.role[req.tenant][u] # NoRole}
<1>1. /\ Admitted(req) /\ Placed /\ stage = "memberships"
      /\ req.proc \in {"ListMemberships", "AddTenantMember"}
  BY DEF RequestInv, ReadMemberships, Underway, Placed
<1>2. CASE rows # {}
  <2>1. stage' = "eventRoles" /\ req' = req
    BY <1>2 DEF ReadMemberships, Goto
  <2> QED  BY <1>1, <2>1 DEF RequestInv, Placed, AnswersStayInTenant
<1>3. CASE rows = {} /\ req.proc = "AddTenantMember"
  <2>1. \E code, r : Respond(code, {}, r)
    BY <1>3 DEF ReadMemberships, Reject
  <2> QED  BY <2>1, EmptyAnswer
<1>4. CASE rows = {} /\ req.proc = "ListMemberships"
  <2>1. \E code, r : Respond(code, {}, r)
    BY <1>4 DEF ReadMemberships, Answer
  <2> QED  BY <2>1, EmptyAnswer
<1> QED  BY <1>1, <1>2, <1>3, <1>4

LEMMA ReadEventRolesStep ==
    ASSUME RequestInv, ReadEventRoles
    PROVE  RequestInv' /\ AnswersStayInTenant'
<1>1. /\ Admitted(req) /\ Placed /\ stage = "eventRoles"
      /\ req.proc \in {"ListMemberships", "AddTenantMember"}
  BY DEF RequestInv, ReadEventRoles, Underway, Placed
<1>2. CASE VerifyOwnership(req, req.tenant) # NoError
  <2>1. \E code, r : Respond(code, {}, r)
    BY <1>2 DEF ReadEventRoles, Reject
  <2> QED  BY <2>1, EmptyAnswer
<1>3. CASE VerifyOwnership(req, req.tenant) = NoError
  <2> DEFINE body == {MembershipOf(req, req.tenant, u, seen[u], EventRoleOfRow(req.tenant, u)) :
                        u \in DOMAIN seen}
  <2>1. Answer(req, body)
    BY <1>3 DEF ReadEventRoles
  <2>2. \A row \in body : row.tenantId = req.tenant
    BY RowTenants
  <2>3. req.tenant \in Visible(req)
    BY <1>1, TargetIsContext DEF Underway, Unscoped
  <2> HIDE DEF body
  <2> QED  BY <2>1, <2>2, <2>3, FullAnswer
<1> QED  BY <1>2, <1>3

LEMMA CurrentRoleStep ==
    ASSUME RequestInv, CurrentRole
    PROVE  RequestInv' /\ AnswersStayInTenant'
<1>1. Admitted(req) /\ Placed /\ stage = "role" /\ req.proc = "CreateEvent"
  BY DEF RequestInv, CurrentRole, Underway, Placed
<1>2. CASE RoleOf(req, req.tenant) = NoRole
  <2>1. \E code, r : Respond(code, {}, r)
    BY <1>2 DEF CurrentRole, Reject
  <2> QED  BY <2>1, EmptyAnswer
<1>3. CASE RoleOf(req, req.tenant) # NoRole
  <2>1. stage' = "write" /\ req' = req
    BY <1>3 DEF CurrentRole, Goto
  <2> QED  BY <1>1, <2>1 DEF RequestInv, Placed, AnswersStayInTenant, Reads
<1> QED  BY <1>2, <1>3

\* The rows a write answers with are of a tenant its caller may see.
LEMMA WrittenVisible ==
    ASSUME RequestInv, stage = "write", WriteChecks(req) = NoError, NEW d
    PROVE  \A row \in Written(req, d) : row.tenantId \in Visible(req)
<1> DEFINE t == Target(req)
<1>1. Admitted(req) /\ Placed /\ req.proc \notin Reads
  BY DEF RequestInv, Underway, Placed
<1>2. CASE req.proc = "StartTenantRegistration"
  <2>1. Written(req, d) = {tenantProto(d, Contested)}
    BY <1>2 DEF Written
  <2>2. req.http = FALSE /\ req.token.tenant = Blank
    BY <1>1, <1>2 DEF Admitted, TokenFits, Unscoped
  <2>3. Visible(req) = {Contested}
    BY <1>2, <2>2 DEF Visible
  <2> QED  BY <2>1, <2>3, RowTenants
<1>3. CASE req.proc \in {"ClaimTenantOwnership", "AcceptTenantInvitation"}
  <2>1. \A row \in Written(req, d) : row.tenantId = t
    BY <1>3, RowTenants DEF Written
  <2>2. req.http = FALSE /\ req.token.tenant = Blank /\ t = req.tenant
    BY <1>1, <1>3 DEF Admitted, TokenFits, Unscoped, Target, EventProcedures
  <2>3. CASE req.proc = "ClaimTenantOwnership"
    <3>1. FailIf(db.tenant[t] # "pending" \/ req.secret # "right", "ErrOwnershipClaimRejected") = NoError
      BY <2>3, BothPass DEF WriteChecks
    <3>2. req.secret = "right"
      BY <3>1 DEF FailIf, NoError
    <3>3. Visible(req) = {req.tenant}
      BY <1>3, <2>2, <3>2 DEF Visible
    <3> QED  BY <2>1, <2>2, <3>3
  <2>4. CASE req.proc = "AcceptTenantInvitation"
    <3>1. FailIf(req.secret = "wrong" \/ db.invitation[t] # "open", "ErrInvitationRejected") = NoError
      BY <2>4, BothPass DEF WriteChecks
    <3>2. req.secret = "right"
      BY <1>1, <2>4, <3>1 DEF FailIf, NoError, Admitted
    <3>3. Visible(req) = {req.tenant}
      BY <1>3, <2>2, <3>2 DEF Visible
    <3> QED  BY <2>1, <2>2, <3>3
  <2> QED  BY <1>3, <2>3, <2>4
<1>4. CASE req.proc \notin Unscoped
  <2>1. \A row \in Written(req, d) : row.tenantId = t
    BY <1>4, RowTenants DEF Written, Unscoped
  <2>2. t \in Visible(req)
    BY <1>4, TargetIsContext DEF Underway
  <2> QED  BY <2>1, <2>2
<1> QED  BY <1>1, <1>2, <1>3, <1>4 DEF Unscoped, Reads

LEMMA WriteStep ==
    ASSUME RequestInv, Write
    PROVE  RequestInv' /\ AnswersStayInTenant'
<1>1. Admitted(req) /\ Placed /\ stage = "write"
  BY DEF RequestInv, Write, Underway
<1>2. CASE WriteChecks(req) # NoError
  <2>1. \E code, r : Respond(code, {}, r)
    BY <1>2 DEF Write, Reject
  <2> QED  BY <2>1, EmptyAnswer
<1>3. CASE WriteChecks(req) = NoError /\ req.proc = "AddTenantMember"
  <2>1. stage' = "memberships" /\ req' = req
    BY <1>3 DEF Write, Goto
  <2> QED  BY <1>1, <1>3, <2>1 DEF RequestInv, Placed, AnswersStayInTenant
<1>4. CASE WriteChecks(req) = NoError /\ req.proc # "AddTenantMember"
  <2>1. Answer(req, Written(req, db'))
    BY <1>4 DEF Write
  <2>2. \A row \in Written(req, db') : row.tenantId \in Visible(req)
    BY <1>1, <1>4, WrittenVisible
  <2> QED  BY <2>1, <2>2, FullAnswer
<1> QED  BY <1>2, <1>3, <1>4

-----------------------------------------------------------------------------
(* Answers *)

LEMMA RequestStep ==
    ASSUME RequestInv, AnswersStayInTenant, [Next]_vars
    PROVE  RequestInv' /\ AnswersStayInTenant'
<1>1. CASE Arrive
  <2>1. CASE \E code : Refuse(code)
    BY <2>1, EmptyAnswer DEF Refuse
  <2>2. ASSUME NEW r, NEW failure, Serve(r, failure), failure = NoError => Admitted(r)
        PROVE  RequestInv' /\ AnswersStayInTenant'
    <3>1. RequestInv'
      BY <2>2, ServeStarts
    <3>2. CASE failure # NoError
      BY <2>2, <3>2, EmptyAnswer DEF Serve, Refuse
    <3>3. CASE failure = NoError
      <4>1. stage' # "answered"
        BY <2>2, <3>3 DEF Serve, FirstStage
      <4> QED  BY <3>1, <4>1 DEF AnswersStayInTenant
    <3> QED  BY <3>1, <3>2, <3>3
  <2> QED  BY <1>1, <2>1, <2>2, ArriveServes
<1>2. CASE FindEvent
  BY <1>2, FindEventStep
<1>3. CASE FindTenant
  BY <1>3, FindTenantStep
<1>4. CASE Read
  BY <1>4, ReadStep
<1>5. CASE ReadMemberships
  BY <1>5, ReadMembershipsStep
<1>6. CASE ReadEventRoles
  BY <1>6, ReadEventRolesStep
<1>7. CASE CurrentRole
  BY <1>7, CurrentRoleStep
<1>8. CASE Write
  BY <1>8, WriteStep
<1>9. CASE FailStatement
  BY <1>9, EmptyAnswer DEF FailStatement, Reject
<1>10. CASE LoseCommitAnswer
  BY <1>10, EmptyAnswer DEF LoseCommitAnswer
<1>11. CASE Send
  BY <1>11 DEF Send, RequestInv, Underway, AnswersStayInTenant
<1>12. CASE Others
  <2>1. UNCHANGED <<stage, req, answer>>
    BY <1>12, OthersLeave
  <2> QED  BY <2>1 DEF RequestInv, Underway, Placed, AnswersStayInTenant
<1>13. CASE UNCHANGED vars
  BY <1>13 DEF vars, RequestInv, Underway, Placed, AnswersStayInTenant
<1> QED  BY <1>1, <1>2, <1>3, <1>4, <1>5, <1>6, <1>7, <1>8, <1>9, <1>10, <1>11, <1>12, <1>13
         DEF Next, Arrive

LEMMA RequestAlways == Spec => [](RequestInv /\ AnswersStayInTenant)
<1>1. Init => RequestInv /\ AnswersStayInTenant
  BY DEF Init, RequestInv, Underway, AnswersStayInTenant
<1>2. RequestInv /\ AnswersStayInTenant /\ [Next]_vars => (RequestInv /\ AnswersStayInTenant)'
  BY RequestStep
<1> QED  BY <1>1, <1>2, PTL DEF Spec

\* No answer of the eighteen RPCs and of the HTTP read carries a row of a
\* tenant its caller is not scoped to, for any tenants and users and whatever
\* other requests do in between.
THEOREM AnswersAlwaysStayInTenant == Spec => []AnswersStayInTenant
  BY RequestAlways, PTL

-----------------------------------------------------------------------------
(* Rows *)

Held == GrantableRoles \cup {NoRole}

\* The databases in which every role held is one a write may assign.
Rows ==
    [tenant : [Tenants -> TenantStates], plan : [Tenants -> Plans],
     role : [Tenants -> [Users -> Held]],
     event : [Tenants -> Statuses \cup {"absent"}],
     eventRole : [Tenants -> [Users -> Held]],
     invitation : [Tenants -> InvitationStates]]

\* From d to e only rows of tenant t change.
OnlyAt(d, e, t) == \A w \in Tenants \ {t} : \A f \in DOMAIN d : e[f][w] = d[f][w]

LEMMA OnlyAtComposes ==
    ASSUME NEW d \in Rows, NEW e \in Rows, NEW f \in Rows, NEW t,
           OnlyAt(d, e, t), OnlyAt(e, f, t)
    PROVE  OnlyAt(d, f, t)
<1>1. DOMAIN d = DOMAIN e
  BY DEF Rows
<1> QED  BY <1>1, Zenon DEF OnlyAt

LEMMA SetTenant ==
    ASSUME NEW d \in Rows, NEW t \in Tenants, NEW v \in TenantStates
    PROVE  /\ [d EXCEPT !.tenant[t] = v] \in Rows
           /\ OnlyAt(d, [d EXCEPT !.tenant[t] = v], t)
           /\ [d EXCEPT !.tenant[t] = v].role = d.role
  BY DEF Rows, OnlyAt

LEMMA SetPlan ==
    ASSUME NEW d \in Rows, NEW t \in Tenants, NEW v \in Plans
    PROVE  [d EXCEPT !.plan[t] = v] \in Rows /\ OnlyAt(d, [d EXCEPT !.plan[t] = v], t)
  BY DEF Rows, OnlyAt

LEMMA SetInvitation ==
    ASSUME NEW d \in Rows, NEW t \in Tenants, NEW v \in InvitationStates
    PROVE  /\ [d EXCEPT !.invitation[t] = v] \in Rows
           /\ OnlyAt(d, [d EXCEPT !.invitation[t] = v], t)
           /\ [d EXCEPT !.invitation[t] = v].role = d.role
           /\ [d EXCEPT !.invitation[t] = v].tenant = d.tenant
  BY DEF Rows, OnlyAt

LEMMA SetEvent ==
    ASSUME NEW d \in Rows, NEW t \in Tenants, NEW v \in Statuses
    PROVE  /\ [d EXCEPT !.event[t] = v] \in Rows
           /\ OnlyAt(d, [d EXCEPT !.event[t] = v], t)
           /\ [d EXCEPT !.event[t] = v].tenant = d.tenant
           /\ [d EXCEPT !.event[t] = v].role = d.role
  BY DEF Rows, OnlyAt

LEMMA SetEventRole ==
    ASSUME NEW d \in Rows, NEW t \in Tenants, NEW u \in Users, NEW v \in Held
    PROVE  /\ [d EXCEPT !.eventRole[t][u] = v] \in Rows
           /\ OnlyAt(d, [d EXCEPT !.eventRole[t][u] = v], t)
           /\ [d EXCEPT !.eventRole[t][u] = v].tenant = d.tenant
           /\ [d EXCEPT !.eventRole[t][u] = v].role = d.role
  BY DEF Rows, OnlyAt

LEMMA SetTenantAndPlan ==
    ASSUME NEW d \in Rows, NEW t \in Tenants, NEW v \in TenantStates, NEW x \in Plans,
           NEW e, e = [d EXCEPT !.tenant[t] = v, !.plan[t] = x]
    PROVE  e \in Rows /\ OnlyAt(d, e, t)
<1>1. e \in Rows
  BY DEF Rows
<1>2. OnlyAt(d, e, t)
  BY DEF Rows, OnlyAt
<1> QED  BY <1>1, <1>2

LEMMA SetEventAndRole ==
    ASSUME NEW d \in Rows, NEW t \in Tenants, NEW u \in Users, NEW v \in Held,
           NEW e, e = [d EXCEPT !.event[t] = "draft", !.eventRole[t][u] = v]
    PROVE  e \in Rows /\ OnlyAt(d, e, t) /\ e.tenant = d.tenant
<1>1. e \in Rows
  BY DEF Rows, Statuses
<1>2. OnlyAt(d, e, t)
  BY DEF Rows, OnlyAt
<1>3. e.tenant = d.tenant
  BY DEF Rows
<1> QED  BY <1>1, <1>2, <1>3

\* A role is set, and with the membership its event roles go.
LEMMA SetRole ==
    ASSUME NEW d \in Rows, NEW t \in Tenants, NEW u \in Users, NEW v \in Held
    PROVE  /\ WithRole(d, t, u, v) \in Rows
           /\ OnlyAt(d, WithRole(d, t, u, v), t)
           /\ WithRole(d, t, u, v).tenant = d.tenant
           /\ \A w \in Users \ {u} : WithRole(d, t, u, v).role[t][w] = d.role[t][w]
           /\ WithRole(d, t, u, v).role[t][u] = v
<1> DEFINE x == IF v = NoRole THEN NoRole ELSE d.eventRole[t][u]
           e == [d EXCEPT !.role[t][u] = v, !.eventRole[t][u] = x]
<1>1. x \in Held
  BY DEF Rows, Held
<1>2. WithRole(d, t, u, v) = e
  BY DEF WithRole, Rows
<1> HIDE DEF x
<1>3. e \in Rows
  BY <1>1 DEF Rows
<1>4. OnlyAt(d, e, t)
  BY <1>1 DEF Rows, OnlyAt
<1>5. e.tenant = d.tenant
  BY DEF Rows
<1>6. \A w \in Users \ {u} : e.role[t][w] = d.role[t][w]
  BY DEF Rows
<1>7. e.role[t][u] = v
  BY DEF Rows
<1> HIDE DEF e
<1> QED  BY <1>2, <1>3, <1>4, <1>5, <1>6, <1>7

LEMMA SetNewEvent ==
    ASSUME NEW d \in Rows, NEW t \in Tenants, NEW u \in Users
    PROVE  /\ WithEvent(d, t, u) \in Rows
           /\ WithEvent(d, t, u).tenant = d.tenant
           /\ WithEvent(d, t, u).role = d.role
<1> DEFINE x == d.role[t][u]
           e == [d EXCEPT !.event[t] = "draft", !.eventRole[t][u] = x]
<1>1. x \in Held
  BY DEF Rows
<1>2. WithEvent(d, t, u) = e
  BY Zenon DEF WithEvent
<1> HIDE DEF x
<1>3. e \in Rows
  BY <1>1 DEF Rows, Statuses
<1>4. e.tenant = d.tenant /\ e.role = d.role
  BY DEF Rows
<1> HIDE DEF e
<1> QED  BY <1>2, <1>3, <1>4

-----------------------------------------------------------------------------
(* Writes *)

\* The rows are typed; a registration still finds its name free, since nobody
\* else draws it; and what the creator of an event has been found to hold is a
\* role.
DataInv ==
    /\ db \in Rows
    /\ Underway /\ req.proc = "StartTenantRegistration" => db.tenant[Contested] = "absent"
    /\ stage = "write" /\ req.proc = "CreateEvent" => seen \in GrantableRoles

\* The tenant that r writes to.
WrittenTenant(r) == IF r.proc = "StartTenantRegistration" THEN Contested ELSE Target(r)

LEMMA WriteTarget ==
    ASSUME RequestInv, stage = "write"
    PROVE  /\ Admitted(req) /\ req.proc \notin Reads
           /\ WrittenTenant(req) \in Tenants
           /\ req.proc # "StartTenantRegistration" => Target(req) \in Tenants
           /\ req.proc \notin Unscoped => req.token.tenant = Target(req)
<1>1. Admitted(req) /\ Placed /\ req.proc \notin Reads
  BY DEF RequestInv, Underway, Placed
<1>2. CASE req.proc = "StartTenantRegistration"
  BY <1>1, <1>2, BoundaryAssumption DEF WrittenTenant, Unscoped
<1>3. CASE req.proc \in {"ClaimTenantOwnership", "AcceptTenantInvitation"}
  BY <1>1, <1>3 DEF WrittenTenant, Unscoped, Target, Admitted, Named, EventProcedures
<1>4. CASE req.proc \notin Unscoped
  <2>1. Target(req) \in Tenants /\ TenantPublicIDFromContext(req) = Target(req)
    BY <1>4, TargetIsContext DEF Underway
  <2>2. req.http = FALSE
    BY <1>1 DEF Admitted, Reads
  <2>3. req.token.tenant = Target(req)
    BY <1>1, <2>1, <2>2, BoundaryAssumption DEF Admitted, TenantPublicIDFromContext
  <2> QED  BY <1>1, <1>4, <2>1, <2>3 DEF WrittenTenant, Unscoped
<1> QED  BY <1>1, <1>2, <1>3, <1>4 DEF Unscoped, Reads

LEMMA EffectFits ==
    ASSUME RequestInv, DataInv, stage = "write", WriteChecks(req) = NoError
    PROVE  /\ Effect(req) \in Rows
           /\ OnlyAt(db, Effect(req), WrittenTenant(req))
           /\ req.proc \in {"ClaimTenantOwnership", "AcceptTenantInvitation"} =>
                 \A w \in Users \ {SubjectFromContext(req)} :
                    Effect(req).role[Target(req)][w] = db.role[Target(req)][w]
<1> DEFINE t == Target(req)
           u == SubjectFromContext(req)
<1>1. /\ Admitted(req) /\ db \in Rows /\ req.proc \notin Reads
      /\ WrittenTenant(req) \in Tenants
      /\ req.proc # "StartTenantRegistration" => t \in Tenants /\ WrittenTenant(req) = t
  BY WriteTarget DEF DataInv, WrittenTenant
<1>2. CASE req.proc = "StartTenantRegistration"
  <2>1. /\ Effect(req) = [db EXCEPT !.tenant[Contested] = "pending", !.plan[Contested] = req.plan]
        /\ WrittenTenant(req) = Contested
    BY <1>2 DEF Effect, WrittenTenant
  <2>2. req.plan \in Plans /\ "pending" \in TenantStates
    BY <1>1, <1>2 DEF Admitted, TenantStates
  <2>3. Contested \in Tenants /\ db \in Rows
    BY <1>1, <2>1
  <2>4. ASSUME NEW e, e = [db EXCEPT !.tenant[Contested] = "pending", !.plan[Contested] = req.plan]
        PROVE  e \in Rows /\ OnlyAt(db, e, Contested)
    BY <2>2, <2>3, <2>4, SetTenantAndPlan, Zenon
  <2>5. Effect(req) \in Rows /\ OnlyAt(db, Effect(req), Contested)
    BY <2>1, <2>4, Zenon
  <2> QED  BY <1>2, <2>1, <2>5
<1>3. CASE req.proc = "ClaimTenantOwnership"
  <2> DEFINE d == [db EXCEPT !.tenant[t] = "owned"]
  <2>1. Effect(req) = WithRole(d, t, u, "owner")
    BY <1>3 DEF Effect
  <2>2. u \in Users /\ "owner" \in Held /\ "owned" \in TenantStates /\ t \in Tenants
    BY <1>1, <1>3 DEF Admitted, TokenFits, SubjectFromContext, Held, GrantableRoles, TenantStates
  <2>3. d \in Rows /\ OnlyAt(db, d, t) /\ d.role = db.role
    BY <1>1, <2>2, SetTenant
  <2> HIDE DEF d
  <2>4. /\ Effect(req) \in Rows /\ OnlyAt(d, Effect(req), t)
        /\ \A w \in Users \ {u} : Effect(req).role[t][w] = d.role[t][w]
    BY <2>1, <2>2, <2>3, SetRole
  <2> QED  BY <1>1, <1>3, <2>3, <2>4, OnlyAtComposes
<1>4. CASE req.proc = "ChangeTenantContract"
  <2>1. Effect(req) = [db EXCEPT !.plan[t] = req.plan]
    BY <1>4 DEF Effect
  <2> QED  BY <1>1, <1>4, <2>1, SetPlan DEF Admitted
<1>5. CASE req.proc = "ArchiveTenant"
  <2>1. Effect(req) = [db EXCEPT !.tenant[t] = "archived"] /\ "archived" \in TenantStates
    BY <1>5 DEF Effect, TenantStates
  <2> QED  BY <1>1, <1>5, <2>1, SetTenant
<1>6. CASE req.proc = "CreateEvent"
  <2>1. Effect(req) = [db EXCEPT !.event[t] = "draft", !.eventRole[t][u] = seen]
    BY <1>6 DEF Effect
  <2>2. FailIf(RoleOf(req, t) = NoRole, "ErrTenantMembershipRequired") = NoError
    BY <1>6, BothPass DEF WriteChecks
  <2>3. u \in Users
    BY <2>2 DEF FailIf, NoError, RoleOf
  <2>4. seen \in Held
    BY <1>6 DEF DataInv, Held
  <2>5. t \in Tenants /\ db \in Rows /\ WrittenTenant(req) = t
    BY <1>1, <1>6
  <2>6. ASSUME NEW e, e = [db EXCEPT !.event[t] = "draft", !.eventRole[t][u] = seen]
        PROVE  e \in Rows /\ OnlyAt(db, e, t)
    BY <2>3, <2>4, <2>5, <2>6, SetEventAndRole, Zenon
  <2>7. Effect(req) \in Rows /\ OnlyAt(db, Effect(req), t)
    BY <2>1, <2>6, Zenon
  <2> QED  BY <1>6, <2>5, <2>7
<1>7. CASE req.proc = "TransitionEventStatus"
  <2>1. Effect(req) = [db EXCEPT !.event[t] = req.to]
    BY <1>7 DEF Effect
  <2> QED  BY <1>1, <1>7, <2>1, SetEvent DEF Admitted
<1>8. CASE req.proc \in {"AddTenantMember", "ChangeTenantRole"}
  <2>1. Effect(req) = WithRole(db, t, req.user, req.role)
    BY <1>8 DEF Effect
  <2>2. req.user \in Users /\ req.role \in Held
    BY <1>1, <1>8 DEF Admitted, Asked, Held
  <2> QED  BY <1>1, <1>8, <2>1, <2>2, SetRole
<1>9. CASE req.proc = "GrantEventRole"
  <2>1. Effect(req) = [db EXCEPT !.eventRole[t][req.user] = req.role]
    BY <1>9 DEF Effect
  <2>2. req.user \in Users /\ req.role \in Held
    BY <1>1, <1>9 DEF Admitted, Asked, Held
  <2> QED  BY <1>1, <1>9, <2>1, <2>2, SetEventRole
<1>10. CASE req.proc = "RevokeRole"
  <2>1. Effect(req) = IF req.event # Blank THEN [db EXCEPT !.eventRole[t][req.user] = NoRole]
                                           ELSE WithRole(db, t, req.user, NoRole)
    BY <1>10 DEF Effect
  <2>2. req.user \in Users /\ NoRole \in Held
    BY <1>1, <1>10 DEF Admitted, Asked, Held
  <2> QED  BY <1>1, <1>10, <2>1, <2>2, SetEventRole, SetRole
<1>11. CASE req.proc = "CreateTenantInvitation"
  <2>1. Effect(req) = [db EXCEPT !.invitation[t] = "open"] /\ "open" \in InvitationStates
    BY <1>11 DEF Effect, InvitationStates
  <2> QED  BY <1>1, <1>11, <2>1, SetInvitation
<1>12. CASE req.proc = "RevokeTenantInvitation"
  <2>1. Effect(req) = [db EXCEPT !.invitation[t] = "closed"] /\ "closed" \in InvitationStates
    BY <1>12 DEF Effect, InvitationStates
  <2> QED  BY <1>1, <1>12, <2>1, SetInvitation
<1>13. CASE req.proc = "AcceptTenantInvitation"
  <2> DEFINE d == [db EXCEPT !.invitation[t] = "closed"]
  <2>1. Effect(req) = WithRole(d, t, u, "staff")
    BY <1>13 DEF Effect
  <2>2. u \in Users /\ "staff" \in Held /\ "closed" \in InvitationStates /\ t \in Tenants
    BY <1>1, <1>13 DEF Admitted, TokenFits, SubjectFromContext, Held, GrantableRoles, InvitationStates
  <2>3. d \in Rows /\ OnlyAt(db, d, t) /\ d.role = db.role
    BY <1>1, <2>2, SetInvitation
  <2> HIDE DEF d
  <2>4. /\ Effect(req) \in Rows /\ OnlyAt(d, Effect(req), t)
        /\ \A w \in Users \ {u} : Effect(req).role[t][w] = d.role[t][w]
    BY <2>1, <2>2, <2>3, SetRole
  <2> QED  BY <1>1, <1>13, <2>3, <2>4, OnlyAtComposes
<1> QED  BY <1>1, <1>2, <1>3, <1>4, <1>5, <1>6, <1>7, <1>8, <1>9, <1>10, <1>11, <1>12, <1>13
         DEF Admitted, RelationProcedures, TenantProcedures, Reads

LEMMA RequirePassed ==
    ASSUME NEW r, NEW t, Require(r, t) = NoError
    PROVE  Grants(RoleOf(r, t), ScopeTenantWrite)
<1>1. FailIf(~Grants(RoleOf(r, t), ScopeTenantWrite), "ErrPermissionDenied") = NoError
  BY BothPass DEF Require
<1> QED  BY <1>1 DEF FailIf, NoError

\* Whoever gets as far as the write is entitled to it when it commits.
LEMMA WriterEntitled ==
    ASSUME RequestInv, DataInv, stage = "write", WriteChecks(req) = NoError, db' = Effect(req)
    PROVE  Entitled(req, WrittenTenant(req))
<1> DEFINE t == Target(req)
<1>1. /\ Admitted(req) /\ TokenFits(req.proc, req.token) /\ req.proc \notin Reads
      /\ req.proc # "StartTenantRegistration" => WrittenTenant(req) = t
      /\ req.proc \notin Unscoped => req.token.tenant = t
  BY WriteTarget DEF WrittenTenant, Admitted
<1>2. CASE req.proc = "StartTenantRegistration"
  BY <1>2 DEF Entitled, WrittenTenant, DataInv, Underway
<1>3. CASE req.proc = "ClaimTenantOwnership"
  <2>1. FailIf(db.tenant[t] # "pending" \/ req.secret # "right", "ErrOwnershipClaimRejected") = NoError
    BY <1>3, BothPass DEF WriteChecks
  <2>2. req.secret = "right"
    BY <2>1 DEF FailIf, NoError
  <2>3. t = req.tenant
    BY <1>1, <1>3 DEF Target, Admitted, EventProcedures
  <2>4. \A w \in Users \ {SubjectFromContext(req)} : db'.role[t][w] = db.role[t][w]
    BY <1>3, EffectFits
  <2> QED  BY <1>1, <1>3, <2>2, <2>3, <2>4 DEF Entitled
<1>4. CASE req.proc = "AcceptTenantInvitation"
  <2>1. FailIf(req.secret = "wrong" \/ db.invitation[t] # "open", "ErrInvitationRejected") = NoError
    BY <1>4, BothPass DEF WriteChecks
  <2>2. req.secret = "right"
    BY <1>1, <1>4, <2>1 DEF FailIf, NoError, Admitted
  <2>3. t = req.tenant
    BY <1>1, <1>4 DEF Target, Admitted, EventProcedures
  <2>4. \A w \in Users \ {SubjectFromContext(req)} : db'.role[t][w] = db.role[t][w]
    BY <1>4, EffectFits
  <2> QED  BY <1>1, <1>4, <2>2, <2>3, <2>4 DEF Entitled
<1>5. CASE req.proc \in {"ChangeTenantContract", "ArchiveTenant", "ChangeTenantRole",
                         "GrantEventRole", "RevokeRole", "CreateTenantInvitation"}
  <2>1. Require(req, t) = NoError
    <3>1. CASE req.proc \in {"ChangeTenantContract", "ArchiveTenant"}
      BY <3>1, BothPass DEF WriteChecks
    <3>2. CASE req.proc = "ChangeTenantRole"
      BY <3>2, BothPass DEF WriteChecks
    <3>3. CASE req.proc = "GrantEventRole"
      BY <3>3, BothPass DEF WriteChecks
    <3>4. CASE req.proc = "RevokeRole" /\ req.event # Blank
      BY <3>4, BothPass DEF WriteChecks
    <3>5. CASE req.proc = "RevokeRole" /\ req.event = Blank
      BY <3>5, BothPass DEF WriteChecks
    <3>6. CASE req.proc = "CreateTenantInvitation"
      BY <3>6, BothPass DEF WriteChecks
    <3> QED  BY <1>5, <3>1, <3>2, <3>3, <3>4, <3>5, <3>6
  <2>2. Grants(RoleOf(req, t), ScopeTenantWrite)
    BY <2>1, RequirePassed
  <2> QED  BY <1>1, <1>5, <2>2 DEF Entitled, Unscoped
<1>6. CASE req.proc = "CreateEvent"
  <2>1. FailIf(RoleOf(req, t) = NoRole, "ErrTenantMembershipRequired") = NoError
    BY <1>6, BothPass DEF WriteChecks
  <2>2. RoleOf(req, t) # NoRole
    BY <2>1 DEF FailIf, NoError
  <2> QED  BY <1>1, <1>6, <2>2 DEF Entitled, Unscoped
<1>7. CASE req.proc \in {"RevokeTenantInvitation", "TransitionEventStatus", "AddTenantMember"}
  BY <1>1, <1>7 DEF Entitled, Unscoped, TokenFits
<1> QED  BY <1>1, <1>2, <1>3, <1>4, <1>5, <1>6, <1>7
         DEF Admitted, RelationProcedures, TenantProcedures, Reads

\* Only the commit of a request changes rows on its behalf.
LEMMA OnlyWritesWrite ==
    ASSUME [Next]_vars
    PROVE  \/ Others
           \/ db' = db
           \/ stage = "write" /\ WriteChecks(req) = NoError /\ db' = Effect(req)
<1>1. CASE Arrive
  <2>1. ASSUME NEW code, Refuse(code) PROVE db' = db
    BY <2>1 DEF Refuse
  <2>2. ASSUME NEW r, NEW failure, Serve(r, failure) PROVE db' = db
    BY <2>1, <2>2 DEF Serve
  <2> QED  BY <1>1, <2>1, <2>2, ArriveServes
<1>2. CASE \/ FindEvent \/ FindTenant \/ Read \/ ReadMemberships \/ ReadEventRoles
           \/ CurrentRole \/ FailStatement \/ Send \/ UNCHANGED vars
  BY <1>2 DEF FindEvent, FindTenant, Read, ReadMemberships, ReadEventRoles, CurrentRole,
              FailStatement, Send, vars
<1>3. CASE Write \/ LoseCommitAnswer
  BY <1>3 DEF Write, LoseCommitAnswer
<1> QED  BY <1>1, <1>2, <1>3 DEF Next, Arrive

\* What everybody else does keeps the rows typed, frees no name that a
\* registration has drawn, and brings no archived tenant back.
LEMMA OthersRows ==
    ASSUME db \in Rows, Others
    PROVE  /\ db' \in Rows
           /\ req.proc = "StartTenantRegistration" /\ db.tenant[Contested] = "absent" =>
                 db'.tenant[Contested] = "absent"
           /\ \A t \in Tenants : db.tenant[t] = "archived" => db'.tenant[t] = "archived"
<1> DEFINE Good(d) ==
      /\ d \in Rows
      /\ req.proc = "StartTenantRegistration" /\ db.tenant[Contested] = "absent" =>
            d.tenant[Contested] = "absent"
      /\ \A t \in Tenants : db.tenant[t] = "archived" => d.tenant[t] = "archived"
<1>0. Contested \in Tenants /\ AskedStatuses \subseteq Statuses
  BY BoundaryAssumption
<1>1. ASSUME NEW d, NEW touched, OthersWrite(d, touched), Good(d) PROVE Good(db')
  BY <1>1 DEF OthersWrite
<1>2. ASSUME NEW from \in TenantStates, NEW to \in TenantStates, TenantIs({from}),
             from # "archived", from = "absent" => req.proc # "StartTenantRegistration"
      PROVE  Good([db EXCEPT !.tenant[Contested] = to])
  <2>1. db.tenant[Contested] = from
    BY <1>2 DEF TenantIs
  <2> DEFINE e == [db EXCEPT !.tenant[Contested] = to]
  <2>2. e \in Rows
    BY <1>0, SetTenant
  <2>3. \A t \in Tenants : e.tenant[t] = IF t = Contested THEN to ELSE db.tenant[t]
    BY <1>0 DEF Rows
  <2> HIDE DEF e
  <2>4. Good(e)
    BY <1>0, <1>2, <2>1, <2>2, <2>3
  <2> QED  BY <2>4 DEF e
<1>3. ASSUME NEW d \in Rows, Good(d), NEW u \in Users, NEW v \in Held
      PROVE  Good(WithRole(d, Contested, u, v))
  BY <1>0, <1>3, SetRole
<1>4. Good(db)
  OBVIOUS
<1>5. ASSUME NEW d \in Rows, d.tenant = db.tenant PROVE Good(d)
  BY <1>5
<1> HIDE DEF Good
<1>s. {"absent", "pending", "owned", "archived"} \subseteq TenantStates
  BY DEF TenantStates
<1>6. CASE OthersRegister
  <2>1. TenantIs({"absent"}) /\ req.proc # "StartTenantRegistration"
    BY <1>6 DEF OthersRegister
  <2>2. Good([db EXCEPT !.tenant[Contested] = "pending"])
    BY <1>2, <1>s, <2>1
  <2> QED  BY <1>1, <1>6, <2>2 DEF OthersRegister, Good
<1>7. CASE OthersSweep
  <2>1. Good([db EXCEPT !.tenant[Contested] = "absent"])
    BY <1>2, <1>7, <1>s DEF OthersSweep
  <2> QED  BY <1>1, <1>7, <2>1 DEF OthersSweep, Good
<1>8. CASE OthersArchive
  <2>1. Good([db EXCEPT !.tenant[Contested] = "archived"])
    BY <1>2, <1>8, <1>s DEF OthersArchive
  <2> QED  BY <1>1, <1>8, <2>1 DEF OthersArchive, Good
<1>9. ASSUME NEW u \in Users, OthersClaim(u) PROVE Good(db')
  <2> DEFINE d == [db EXCEPT !.tenant[Contested] = "owned"]
  <2>1. Good(d)
    BY <1>2, <1>9, <1>s DEF OthersClaim
  <2>2. OthersWrite(WithRole(d, Contested, u, "owner"), {u})
    BY <1>9 DEF OthersClaim
  <2> HIDE DEF d
  <2>3. d \in Rows /\ "owner" \in Held
    BY <2>1 DEF Good, Held, GrantableRoles
  <2>4. Good(WithRole(d, Contested, u, "owner"))
    BY <1>3, <2>1, <2>3
  <2> QED  BY <1>1, <2>2, <2>4
<1>10. ASSUME NEW u \in Users, OthersCreateEvent(u) PROVE Good(db')
  <2>1. OthersWrite(WithEvent(db, Contested, u), {u})
    BY <1>10 DEF OthersCreateEvent
  <2> QED  BY <1>0, <1>1, <1>5, <2>1, SetNewEvent
<1>11. ASSUME NEW u \in Users, NEW role \in Held, OthersSetRole(u, role) PROVE Good(db')
  <2>1. OthersWrite(WithRole(db, Contested, u, role), {u})
    BY <1>11 DEF OthersSetRole
  <2> QED  BY <1>1, <1>3, <1>4, <2>1
<1>12. ASSUME NEW u \in Users, NEW role \in Held, OthersSetEventRole(u, role) PROVE Good(db')
  <2>1. OthersWrite([db EXCEPT !.eventRole[Contested][u] = role], {u})
    BY <1>12 DEF OthersSetEventRole
  <2>2. /\ [db EXCEPT !.eventRole[Contested][u] = role] \in Rows
        /\ [db EXCEPT !.eventRole[Contested][u] = role].tenant = db.tenant
    BY <1>0, SetEventRole
  <2> QED  BY <1>1, <1>5, <2>1, <2>2, Zenon
<1>13. ASSUME NEW to \in AskedStatuses, OthersTransition(to) PROVE Good(db')
  <2>1. OthersWrite([db EXCEPT !.event[Contested] = to], {})
    BY <1>13 DEF OthersTransition
  <2>2. [db EXCEPT !.event[Contested] = to] \in Rows /\ [db EXCEPT !.event[Contested] = to].tenant = db.tenant
    BY <1>0, SetEvent
  <2> QED  BY <1>1, <1>5, <2>1, <2>2, Zenon
<1>14. ASSUME NEW state \in InvitationStates, OthersInvite(state) PROVE Good(db')
  <2>1. OthersWrite([db EXCEPT !.invitation[Contested] = state], {})
    BY <1>14 DEF OthersInvite
  <2>2. /\ [db EXCEPT !.invitation[Contested] = state] \in Rows
        /\ [db EXCEPT !.invitation[Contested] = state].tenant = db.tenant
    BY <1>0, SetInvitation
  <2> QED  BY <1>1, <1>5, <2>1, <2>2, Zenon
<1>15. Good(db')
  <2>1. CASE \E u \in Users : OthersClaim(u) \/ OthersCreateEvent(u)
    BY <1>9, <1>10, <2>1, Zenon
  <2>2. CASE \E u \in Users, role \in GrantableRoles \cup {NoRole} :
               OthersSetRole(u, role) \/ OthersSetEventRole(u, role)
    BY <1>11, <1>12, <2>2, Zenon DEF Held
  <2>3. CASE \E to \in AskedStatuses : OthersTransition(to)
    BY <1>13, <2>3, Zenon
  <2>4. CASE \E state \in InvitationStates : OthersInvite(state)
    BY <1>14, <2>4, Zenon
  <2> QED  BY <1>6, <1>7, <1>8, <2>1, <2>2, <2>3, <2>4, Zenon DEF Others, Good
<1> QED  BY <1>15 DEF Good

LEMMA DataStep ==
    ASSUME RequestInv, DataInv, [Next]_vars
    PROVE  DataInv'
<1>1. db' \in Rows
  BY OnlyWritesWrite, EffectFits, OthersRows DEF DataInv
<1> DEFINE Kept == /\ Underway' /\ req'.proc = "StartTenantRegistration" =>
                         db'.tenant[Contested] = "absent"
                   /\ stage' = "write" /\ req'.proc = "CreateEvent" => seen' \in GrantableRoles
<1> SUFFICES Kept
  BY <1>1 DEF DataInv
<1>2. ASSUME stage' \in {"answered", "idle"} PROVE Kept
  BY <1>2 DEF Underway
<1>3. ASSUME NEW code, NEW r, NEW body, Respond(code, body, r) PROVE Kept
  BY <1>2, <1>3 DEF Respond
<1>4. Underway => Admitted(req) /\ Placed
  BY DEF RequestInv
<1>5. CASE Arrive
  <2>1. ASSUME NEW code, Refuse(code) PROVE Kept
    BY <1>3, <2>1 DEF Refuse
  <2>2. ASSUME NEW r, NEW failure, Serve(r, failure), failure = NoError => Admitted(r) PROVE Kept
    <3>1. CASE failure # NoError
      BY <1>3, <2>2, <3>1 DEF Serve, Refuse
    <3>2. CASE failure = NoError
      <4>1. stage' = FirstStage(r) /\ req' = r /\ Fresh(r) /\ db' = db
        BY <2>2, <3>2 DEF Serve
      <4>2. r.proc = "CreateEvent" => stage' # "write"
        BY <2>2, <3>2, <4>1 DEF FirstStage, Admitted, EventProcedures
      <4> QED  BY <4>1, <4>2 DEF Fresh
    <3> QED  BY <3>1, <3>2
  <2> QED  BY <1>5, <2>1, <2>2, ArriveServes
<1>6. CASE FindEvent
  <2>1. Admitted(req) /\ stage = "event" /\ req.event # Blank
    BY <1>4, <1>6 DEF FindEvent, Underway, Placed
  <2>2. req.proc \in EventProcedures
    BY <2>1 DEF Admitted
  <2>3. CASE EventGate(req) # NoError \/ req.proc = "GetEvent"
    BY <1>3, <1>6, <2>3 DEF FindEvent, Reject, Answer
  <2>4. CASE EventGate(req) = NoError /\ req.proc # "GetEvent"
    <3>1. req' = req \/ req' = [req EXCEPT !.tenant = req.event]
      BY <1>6, <2>4 DEF FindEvent, Goto
    <3>2. req'.proc = req.proc
      BY <2>1, <3>1 DEF Admitted, Fields
    <3> QED  BY <2>2, <3>2 DEF EventProcedures
  <2> QED  BY <2>3, <2>4
<1>7. CASE FindTenant
  <2>1. Placed /\ stage = "tenant"
    BY <1>4, <1>7 DEF FindTenant, Underway
  <2>2. CASE TenantGate(req) # NoError
    BY <1>3, <1>7, <2>2 DEF FindTenant, Reject
  <2>3. CASE TenantGate(req) = NoError
    <3>1. req' = req /\ stage' = AfterTenant(req)
      BY <1>7, <2>3 DEF FindTenant, Goto
    <3> QED  BY <2>1, <3>1 DEF Placed, AfterTenant
  <2> QED  BY <2>2, <2>3
<1>8. CASE Read
  BY <1>3, <1>8 DEF Read, Reject, Answer
<1>9. CASE ReadMemberships
  <2>1. Placed /\ stage = "memberships"
    BY <1>4, <1>9 DEF ReadMemberships, Underway
  <2>2. req.proc \in {"ListMemberships", "AddTenantMember"}
    BY <2>1 DEF Placed
  <2>3. req' = req \/ \E code, body, r : Respond(code, body, r)
    BY <1>9, <2>2 DEF ReadMemberships, Reject, Answer, Goto
  <2> QED  BY <1>3, <2>2, <2>3
<1>10. CASE ReadEventRoles
  BY <1>3, <1>10 DEF ReadEventRoles, Reject, Answer
<1>11. CASE CurrentRole
  <2>1. Admitted(req) /\ Placed /\ stage = "role" /\ req.proc = "CreateEvent"
    BY <1>4, <1>11 DEF CurrentRole, Underway, Placed
  <2>2. CASE RoleOf(req, req.tenant) = NoRole
    BY <1>3, <1>11, <2>2 DEF CurrentRole, Reject
  <2>3. CASE RoleOf(req, req.tenant) # NoRole
    <3>1. req' = req /\ seen' = RoleOf(req, req.tenant)
      BY <1>11, <2>3 DEF CurrentRole, Goto
    <3>2. req.tenant \in Tenants
      BY <2>1, TargetIsContext DEF Underway, Unscoped
    <3>3. RoleOf(req, req.tenant) \in Held
      BY <2>3, <3>2 DEF RoleOf, DataInv, Rows
    <3> QED  BY <2>1, <2>3, <3>1, <3>3 DEF Held
  <2> QED  BY <2>2, <2>3
<1>12. CASE Write
  <2>1. (req' = req /\ req.proc = "AddTenantMember") \/ \E code, body, r : Respond(code, body, r)
    BY <1>12 DEF Write, Reject, Answer, Goto
  <2> QED  BY <1>3, <2>1
<1>13. CASE FailStatement \/ LoseCommitAnswer
  BY <1>3, <1>13 DEF FailStatement, LoseCommitAnswer, Reject
<1>14. CASE Send
  BY <1>2, <1>14 DEF Send
<1>15. CASE Others
  <2>1. stage' = stage /\ req' = req /\ seen' = seen
    BY <1>15, OthersLeave
  <2> QED  BY <1>15, <2>1, OthersRows DEF DataInv, Underway
<1>16. CASE UNCHANGED vars
  BY <1>16 DEF vars, DataInv, Underway
<1> QED  BY <1>5, <1>6, <1>7, <1>8, <1>9, <1>10, <1>11, <1>12, <1>13, <1>14, <1>15, <1>16
         DEF Next, Arrive

LEMMA InvAlways == Spec => [](RequestInv /\ AnswersStayInTenant /\ DataInv)
<1>1. Init => DataInv
  <2> SUFFICES ASSUME Init PROVE DataInv
    OBVIOUS
  <2>1. db \in Rows
    BY DEF Init, Rows, TenantStates, Plans, Held, GrantableRoles, Statuses, InvitationStates
  <2> QED  BY <2>1 DEF Init, DataInv, Underway
<1>2. RequestInv /\ DataInv /\ [Next]_vars => DataInv'
  BY DataStep
<1> QED  BY <1>1, <1>2, RequestAlways, PTL DEF Spec

LEMMA AuthorizedStep ==
    ASSUME RequestInv, DataInv, [Next]_vars, stage' # stage, NEW t \in Tenants,
           \E f \in DOMAIN db : db'[f][t] # db[f][t]
    PROVE  Entitled(req, t)
<1>1. ~Others
  BY OthersLeave
<1>2. stage = "write" /\ WriteChecks(req) = NoError /\ db' = Effect(req)
  BY <1>1, OnlyWritesWrite
<1>3. OnlyAt(db, db', WrittenTenant(req)) /\ Entitled(req, WrittenTenant(req))
  BY <1>2, EffectFits, WriterEntitled
<1>4. t = WrittenTenant(req)
  BY <1>3 DEF OnlyAt
<1> QED  BY <1>3, <1>4

\* A request changes rows of the tenant its caller is entitled to change at the
\* moment of the commit, and of no other, for any tenants and users: the role
\* that grants tenant.write is the one held then, not the token's.
THEOREM WritesAlwaysAuthorized == Spec => WritesAreAuthorized
<1>1. RequestInv /\ DataInv /\ [Next]_vars =>
         [stage' # stage => \A t \in Tenants :
             (\E f \in DOMAIN db : db'[f][t] # db[f][t]) => Entitled(req, t)]_vars
  BY AuthorizedStep
<1> QED  BY <1>1, InvAlways, PTL DEF Spec, WritesAreAuthorized

-----------------------------------------------------------------------------
(* Gates *)

\* What a request whose target has been archived all along has passed so far.
LateInv ==
    Underway /\ late =>
       /\ stage = "event" => Closed(db, req)
       /\ stage # "event" => Target(req) \in Tenants /\ db.tenant[Target(req)] = "archived"
       /\ stage = "write" =>
             req.proc \in {"ClaimTenantOwnership", "ChangeTenantContract", "ArchiveTenant",
                           "CreateEvent", "TransitionEventStatus", "AcceptTenantInvitation"}
       /\ stage = "write" /\ req.proc = "AcceptTenantInvitation" => seen = "archived"

LEMMA OthersLate ==
    ASSUME Others
    PROVE  late' => late /\ Closed(db', req)
<1>1. \A d, touched : OthersWrite(d, touched) => (late' => late /\ Closed(db', req))
  BY DEF OthersWrite
<1> QED  BY <1>1, Zenon
         DEF Others, OthersRegister, OthersSweep, OthersArchive, OthersClaim, OthersCreateEvent,
             OthersSetRole, OthersSetEventRole, OthersTransition, OthersInvite

LEMMA WritableOpen ==
    ASSUME NEW t, Writable(db, t) = NoError
    PROVE  db.tenant[t] # "archived"
<1>1. FailIf(db.tenant[t] = "archived", "ErrTenantArchived") = NoError
  BY BothPass DEF Writable
<1> QED  BY <1>1 DEF FailIf, NoError

\* A late request is stopped by the check that is part of the write.
LEMMA LateWriteRefused ==
    ASSUME RequestInv, LateInv, late, stage = "write"
    PROVE  WriteChecks(req) # NoError
<1> DEFINE t == Target(req)
<1> SUFFICES ASSUME WriteChecks(req) = NoError PROVE FALSE
  OBVIOUS
<1>1. /\ db.tenant[t] = "archived"
      /\ req.proc \in {"ClaimTenantOwnership", "ChangeTenantContract", "ArchiveTenant",
                       "CreateEvent", "TransitionEventStatus", "AcceptTenantInvitation"}
      /\ req.proc = "AcceptTenantInvitation" => seen = "archived"
  BY DEF LateInv, Underway
<1>2. CASE req.proc = "ClaimTenantOwnership"
  <2>1. FailIf(db.tenant[t] # "pending" \/ req.secret # "right", "ErrOwnershipClaimRejected") = NoError
    BY <1>2, BothPass DEF WriteChecks
  <2> QED  BY <1>1, <2>1 DEF FailIf, NoError
<1>3. CASE req.proc \in {"ChangeTenantContract", "ArchiveTenant"}
  <2>1. Writable(db, t) = NoError
    BY <1>3, BothPass DEF WriteChecks
  <2> QED  BY <1>1, <2>1, WritableOpen
<1>4. CASE req.proc \in {"CreateEvent", "TransitionEventStatus"}
  <2>1. FailIf(db.tenant[t] = "archived", "ErrTenantArchived") = NoError
    BY <1>4, BothPass DEF WriteChecks
  <2> QED  BY <1>1, <2>1 DEF FailIf, NoError
<1>5. CASE req.proc = "AcceptTenantInvitation"
  <2>1. FailIf(seen = "archived", "ErrTenantArchived") = NoError
    BY <1>5, BothPass DEF WriteChecks
  <2> QED  BY <1>1, <1>5, <2>1 DEF FailIf, NoError
<1> QED  BY <1>1, <1>2, <1>3, <1>4, <1>5

LEMMA LateStep ==
    ASSUME RequestInv, DataInv, LateInv, [Next]_vars
    PROVE  LateInv'
<1>1. ASSUME stage' \in {"answered", "idle"} PROVE LateInv'
  BY <1>1 DEF LateInv, Underway
<1>2. ASSUME NEW code, NEW r, NEW body, Respond(code, body, r) PROVE LateInv'
  BY <1>1, <1>2 DEF Respond
<1>3. Underway => Admitted(req) /\ Placed
  BY DEF RequestInv
<1>4. CASE Arrive
  <2>1. ASSUME NEW code, Refuse(code) PROVE LateInv'
    BY <1>2, <2>1 DEF Refuse
  <2>2. ASSUME NEW r, NEW failure, Serve(r, failure), failure = NoError => Admitted(r)
        PROVE  LateInv'
    <3>1. CASE failure # NoError
      BY <1>2, <2>2, <3>1 DEF Serve, Refuse
    <3>2. CASE failure = NoError
      <4>1. stage' = FirstStage(r) /\ req' = r /\ db' = db /\ (late' <=> Closed(db, r)) /\ Admitted(r)
        BY <2>2, <3>2 DEF Serve
      <4>2. r.event # Blank => stage' = "event"
        BY <4>1 DEF FirstStage, Admitted, EventProcedures
      <4>3. r.event = Blank => /\ stage' # "event"
                               /\ stage' = "write" =>
                                     r.proc \in {"StartTenantRegistration", "ClaimTenantOwnership",
                                                 "ChangeTenantContract", "ArchiveTenant"}
        BY <4>1 DEF FirstStage
      <4>4. r.event = Blank /\ Closed(db, r) =>
               Target(r) \in Tenants /\ db.tenant[Target(r)] = "archived"
        BY DEF Closed
      <4>5. r.proc = "StartTenantRegistration" => ~Closed(db, r)
        BY <4>1, BoundaryAssumption DEF Closed, Target, Admitted, EventProcedures
      <4> QED  BY <4>1, <4>2, <4>3, <4>4, <4>5 DEF LateInv
    <3> QED  BY <3>1, <3>2
  <2> QED  BY <1>4, <2>1, <2>2, ArriveServes
<1>5. CASE FindEvent
  <2>1. Admitted(req) /\ stage = "event" /\ req.event # Blank /\ db' = db
    BY <1>3, <1>5 DEF FindEvent, Underway, Placed
  <2>2. CASE EventGate(req) # NoError \/ req.proc = "GetEvent"
    BY <1>2, <1>5, <2>2 DEF FindEvent, Reject, Answer
  <2>3. CASE EventGate(req) = NoError /\ req.proc # "GetEvent"
    <3>1. /\ req' = req \/ req' = [req EXCEPT !.tenant = req.event]
          /\ late' = late
          /\ stage' = IF req.proc = "TransitionEventStatus" THEN "write" ELSE "tenant"
      BY <1>5, <2>3 DEF FindEvent, Goto
    <3>2. req'.proc = req.proc /\ req'.event = req.event
      BY <2>1, <3>1 DEF Admitted, Fields
    <3>3. Target(req') = req.event /\ Target(req) = req.event
      BY <2>1, <3>2 DEF Target
    <3>4. req.proc \in {"GrantEventRole", "RevokeRole"} => db.event[req.event] # "archived"
      <4>1. SUFFICES ASSUME req.proc \in {"GrantEventRole", "RevokeRole"}
                     PROVE  db.event[req.event] # "archived"
        OBVIOUS
      <4>2. FailIf(db.event[req.event] = "archived", "ErrEventArchived") = NoError
        BY <2>3, <4>1, BothPass DEF EventGate
      <4> QED  BY <4>2 DEF FailIf, NoError
    <3>5. late => req.event \in Tenants /\ db.tenant[req.event] = "archived"
      BY <2>1, <3>3, <3>4 DEF LateInv, Underway, Closed
    <3> QED  BY <2>1, <3>1, <3>2, <3>3, <3>5 DEF LateInv
  <2> QED  BY <2>2, <2>3
<1>6. CASE FindTenant
  <2>1. Admitted(req) /\ Placed /\ stage = "tenant" /\ db' = db
    BY <1>3, <1>6 DEF FindTenant, Underway
  <2>2. CASE TenantGate(req) # NoError
    BY <1>2, <1>6, <2>2 DEF FindTenant, Reject
  <2>3. CASE TenantGate(req) = NoError
    <3>1. /\ req' = req /\ stage' = AfterTenant(req) /\ late' = late
          /\ req.proc = "AcceptTenantInvitation" => seen' = db.tenant[req.tenant]
      BY <1>6, <2>3 DEF FindTenant, Goto
    <3>2. late => Target(req) \in Tenants /\ db.tenant[Target(req)] = "archived"
      BY <2>1 DEF LateInv, Underway
    <3>3. Target(req) = req.tenant
      BY <2>1 DEF Placed, Target
    <3>4. late => req.proc \in {"AcceptTenantInvitation", "ListMemberships",
                                "ListTenantInvitations", "ListEvents"}
      <4>1. SUFFICES ASSUME late, req.proc \notin {"AcceptTenantInvitation", "ListMemberships",
                                                   "ListTenantInvitations", "ListEvents"}
                     PROVE  FALSE
        OBVIOUS
      <4>2. Writable(db, req.tenant) = NoError
        BY <2>3, <4>1, BothPass DEF TenantGate
      <4> QED  BY <3>2, <3>3, <4>1, <4>2, WritableOpen
    <3>5. stage' # "event" /\ (stage' = "write" =>
             req.proc \notin {"ListMemberships", "ListTenantInvitations", "ListEvents"})
      BY <3>1 DEF AfterTenant
    <3> QED  BY <2>1, <3>1, <3>2, <3>3, <3>4, <3>5 DEF LateInv
  <2> QED  BY <2>2, <2>3
<1>7. CASE Read \/ ReadEventRoles
  BY <1>2, <1>7 DEF Read, ReadEventRoles, Reject, Answer
<1>8. CASE ReadMemberships
  <2>1. stage = "memberships" /\ db' = db /\ req.proc \in {"ListMemberships", "AddTenantMember"}
    BY <1>3, <1>8 DEF ReadMemberships, Underway, Placed
  <2>2. \/ req' = req /\ late' = late /\ stage' = "eventRoles"
        \/ \E code, body, r : Respond(code, body, r)
    BY <1>8, <2>1 DEF ReadMemberships, Reject, Answer, Goto
  <2>3. ASSUME req' = req, late' = late, stage' = "eventRoles" PROVE LateInv'
    BY <2>1, <2>3 DEF LateInv, Underway
  <2> QED  BY <1>2, <2>2, <2>3
<1>9. CASE CurrentRole
  <2>1. stage = "role" /\ db' = db /\ req.proc = "CreateEvent"
    BY <1>3, <1>9 DEF CurrentRole, Underway, Placed
  <2>2. \/ req' = req /\ late' = late /\ stage' = "write"
        \/ \E code, body, r : Respond(code, body, r)
    BY <1>9 DEF CurrentRole, Reject, Goto
  <2>3. ASSUME req' = req, late' = late, stage' = "write" PROVE LateInv'
    BY <2>1, <2>3 DEF LateInv, Underway
  <2> QED  BY <1>2, <2>2, <2>3
<1>10. CASE Write
  <2>1. CASE WriteChecks(req) # NoError
    BY <1>2, <1>10, <2>1 DEF Write, Reject
  <2>2. CASE WriteChecks(req) = NoError
    <3>1. stage = "write" /\ ~late
      BY <1>10, <2>2, LateWriteRefused DEF Write
    <3>2. late' = late \/ \E code, body, r : Respond(code, body, r)
      BY <1>10, <2>2 DEF Write, Goto, Answer
    <3> QED  BY <1>2, <3>1, <3>2 DEF LateInv
  <2> QED  BY <2>1, <2>2
<1>11. CASE FailStatement \/ LoseCommitAnswer
  BY <1>2, <1>11 DEF FailStatement, LoseCommitAnswer, Reject
<1>12. CASE Send
  BY <1>1, <1>12 DEF Send
<1>13. CASE Others
  <2>1. stage' = stage /\ req' = req /\ seen' = seen /\ (late' => late /\ Closed(db', req))
    BY <1>13, OthersLeave, OthersLate
  <2>2. \A t \in Tenants : db.tenant[t] = "archived" => db'.tenant[t] = "archived"
    BY <1>13, OthersRows DEF DataInv
  <2> QED  BY <2>1, <2>2 DEF LateInv, Underway
<1>14. CASE UNCHANGED vars
  BY <1>14 DEF vars, LateInv, Underway, Closed
<1> QED  BY <1>4, <1>5, <1>6, <1>7, <1>8, <1>9, <1>10, <1>11, <1>12, <1>13, <1>14
         DEF Next, Arrive

\* What has been archived all the time that a request was under way is not
\* changed by it, for any tenants and users: every write either meets a gate
\* after it arrived or checks the tenant in its own transaction.
THEOREM GatesAlwaysBind == Spec => GatesBindLaterRequests
<1>1. Init => LateInv
  BY DEF Init, LateInv, Underway
<1>2. RequestInv /\ DataInv /\ LateInv /\ [Next]_vars => LateInv'
  BY LateStep
<1>3. RequestInv /\ LateInv /\ [Next]_vars => [late /\ stage' # stage => db' = db]_vars
  BY OnlyWritesWrite, OthersLeave, LateWriteRefused
<1> QED  BY <1>1, <1>2, <1>3, InvAlways, PTL DEF Spec, GatesBindLaterRequests

-----------------------------------------------------------------------------
(* Codes *)

LEMMA LeastElement ==
    ASSUME NEW I \in SUBSET Nat, I # {}
    PROVE  Min(I) \in I /\ \A y \in I : Min(I) <= y
<1>1. \E x \in I : \A y \in I : ~(<<y, x>> \in OpToRel(<, Nat))
  BY NatLessThanWellFounded, WFMin
<1>2. PICK x \in I : \A y \in I : ~(<<y, x>> \in OpToRel(<, Nat))
  BY <1>1
<1>3. ASSUME NEW y \in I PROVE x <= y
  <2>1. x \in Nat /\ y \in Nat
    OBVIOUS
  <2>2. OpToRel(<, Nat) = {ss \in Nat \X Nat : ss[1] < ss[2]}
    BY DEF OpToRel
  <2>3. y < x => <<y, x>> \in {ss \in Nat \X Nat : ss[1] < ss[2]}
    BY <2>1
  <2>4. ~(y < x)
    BY <1>2, <2>2, <2>3, Zenon
  <2> QED  BY <2>1, <2>4
<1> QED  BY <1>3 DEF Min

MatchesRow(table, err, i) == err \cap table[i].targets # {}

LEMMA ForFirst ==
    ASSUME NEW table, NEW err, Len(table) \in Nat
    PROVE  \/ /\ \A i \in 1..Len(table) : ~MatchesRow(table, err, i)
              /\ For(table, err) = InternalError(err)
           \/ \E i \in 1..Len(table) :
                 /\ MatchesRow(table, err, i)
                 /\ \A j \in 1..(i - 1) : ~MatchesRow(table, err, j)
                 /\ For(table, err) = table[i].code
<1> DEFINE I == {i \in 1..Len(table) : MatchesRow(table, err, i)}
           k == IF I # {} THEN Min(I) ELSE 0
<1>1. For(table, err) = IF k = 0 THEN InternalError(err) ELSE table[k].code
  BY Zenon DEF For, SelectInSeq, MatchesRow
<1>2. CASE I = {}
  <2>1. k = 0
    BY <1>2
  <2>2. For(table, err) = InternalError(err)
    BY <1>1, <2>1
  <2>3. \A i \in 1..Len(table) : ~MatchesRow(table, err, i)
    BY <1>2
  <2> QED  BY <2>2, <2>3
<1>3. CASE I # {}
  <2>1. k \in I /\ \A y \in I : k <= y
    BY <1>3, LeastElement
  <2> HIDE DEF k
  <2>2. k \in 1..Len(table) /\ MatchesRow(table, err, k) /\ k # 0
    BY <2>1
  <2>3. \A j \in 1..(k - 1) : ~MatchesRow(table, err, j)
    BY <2>1, <2>2
  <2>4. For(table, err) = table[k].code
    BY <1>1, <2>2
  <2> QED  BY <2>2, <2>3, <2>4
<1> QED  BY <1>2, <1>3

LEMMA RelationTable ==
    /\ Len(RelationClientErrors) = 10
    /\ \A i \in 1..10 : RelationClientErrors[i].code \in Codes \ {"ok", "internal"}
    /\ RelationClientErrors[2].code = "not_found"
    /\ "ErrMembershipNotFound" \in RelationClientErrors[2].targets
    /\ "ErrMembershipNotFound" \notin RelationClientErrors[1].targets
    /\ \A i \in 1..10 : {Canceled, DeadlineExceeded} \cap RelationClientErrors[i].targets = {}
<1>1. Len(RelationClientErrors) = 10
  BY DEF RelationClientErrors
<1>2. /\ RelationClientErrors[1].code = "invalid_argument"
      /\ RelationClientErrors[2].code = "not_found"
      /\ RelationClientErrors[3].code = "already_exists"
      /\ RelationClientErrors[4].code = "failed_precondition"
      /\ RelationClientErrors[5].code = "permission_denied"
      /\ RelationClientErrors[6].code = "not_found"
      /\ RelationClientErrors[7].code = "failed_precondition"
      /\ RelationClientErrors[8].code = "permission_denied"
      /\ RelationClientErrors[9].code = "unauthenticated"
      /\ RelationClientErrors[10].code = "aborted"
  BY DEF RelationClientErrors, Row
<1>3. \A i \in 1..10 : i \in {1, 2, 3, 4, 5, 6, 7, 8, 9, 10}
  OBVIOUS
<1>4. \A i \in 1..10 : RelationClientErrors[i].code \in Codes \ {"ok", "internal"}
  BY <1>2, <1>3 DEF Codes
<1>5. /\ "ErrMembershipNotFound" \in RelationClientErrors[2].targets
      /\ "ErrMembershipNotFound" \notin RelationClientErrors[1].targets
  BY DEF RelationClientErrors, Row
<1>6. \A i \in 1..10 : {Canceled, DeadlineExceeded} \cap RelationClientErrors[i].targets = {}
  BY <1>3 DEF RelationClientErrors, Row, Canceled, DeadlineExceeded
<1> QED  BY <1>1, <1>2, <1>4, <1>5, <1>6, Zenon

LEMMA TenantTable ==
    /\ Len(TenantClientErrors) = 7
    /\ \A i \in 1..7 : TenantClientErrors[i].code \in Codes \ {"ok", "internal"}
    /\ \A i \in 1..7 : {Canceled, DeadlineExceeded} \cap TenantClientErrors[i].targets = {}
<1>1. Len(TenantClientErrors) = 7
  BY DEF TenantClientErrors
<1>2. /\ TenantClientErrors[1].code = "invalid_argument"
      /\ TenantClientErrors[2].code = "already_exists"
      /\ TenantClientErrors[3].code = "not_found"
      /\ TenantClientErrors[4].code = "failed_precondition"
      /\ TenantClientErrors[5].code = "permission_denied"
      /\ TenantClientErrors[6].code = "unauthenticated"
      /\ TenantClientErrors[7].code = "aborted"
  BY DEF TenantClientErrors, Row
<1>3. \A i \in 1..7 : i \in {1, 2, 3, 4, 5, 6, 7}
  OBVIOUS
<1>4. \A i \in 1..7 : TenantClientErrors[i].code \in Codes \ {"ok", "internal"}
  BY <1>2, <1>3 DEF Codes
<1>5. \A i \in 1..7 : {Canceled, DeadlineExceeded} \cap TenantClientErrors[i].targets = {}
  BY <1>3 DEF TenantClientErrors, Row, Canceled, DeadlineExceeded
<1> QED  BY <1>1, <1>4, <1>5, Zenon

\* The table has a row for the error.
Mapped(table, e) == \E i \in 1..Len(table) : e \in table[i].targets

\* A table whose codes are codes, none of them "internal", and which leaves the
\* two ends of a context to InternalError.
IsTable(table) ==
    /\ Len(table) \in Nat
    /\ \A i \in 1..Len(table) : table[i].code \in Codes \ {"ok", "internal"}
    /\ \A i \in 1..Len(table) : {Canceled, DeadlineExceeded} \cap table[i].targets = {}

LEMMA Tables == IsTable(RelationClientErrors) /\ IsTable(TenantClientErrors)
  BY RelationTable, TenantTable DEF IsTable

LEMMA TableCodes ==
    ASSUME NEW table, IsTable(table)
    PROVE  /\ \A err : For(table, err) \in Codes
           /\ \A e : Mapped(table, e) => For(table, {e}) \in Codes \ {"ok", "internal"}
           /\ For(table, {}) = "internal"
           /\ For(table, {Canceled}) = "canceled"
           /\ For(table, {DeadlineExceeded}) = "deadline_exceeded"
<1>1. \A err : InternalError(err) \in Codes
  BY DEF InternalError, Codes
<1>2. ASSUME NEW err PROVE For(table, err) \in Codes
  BY <1>1, ForFirst DEF IsTable
<1>3. ASSUME NEW e, Mapped(table, e) PROVE For(table, {e}) \in Codes \ {"ok", "internal"}
  <2>1. PICK i \in 1..Len(table) : e \in table[i].targets
    BY <1>3 DEF Mapped
  <2>2. MatchesRow(table, {e}, i)
    BY <2>1 DEF MatchesRow
  <2> QED  BY <2>2, ForFirst DEF IsTable
<1>4. \A i \in 1..Len(table) : ~MatchesRow(table, {}, i)
  BY DEF MatchesRow
<1>5. \A i \in 1..Len(table) : ~MatchesRow(table, {Canceled}, i)
  BY DEF MatchesRow, IsTable
<1>6. \A i \in 1..Len(table) : ~MatchesRow(table, {DeadlineExceeded}, i)
  BY DEF MatchesRow, IsTable
<1>7. /\ For(table, {}) = InternalError({})
      /\ For(table, {Canceled}) = InternalError({Canceled})
      /\ For(table, {DeadlineExceeded}) = InternalError({DeadlineExceeded})
  BY <1>4, <1>5, <1>6, ForFirst DEF IsTable
<1>8. /\ InternalError({}) = "internal" /\ InternalError({Canceled}) = "canceled"
      /\ InternalError({DeadlineExceeded}) = "deadline_exceeded"
  BY DEF InternalError, Canceled, DeadlineExceeded
<1> QED  BY <1>2, <1>3, <1>7, <1>8, Zenon

LEMMA MembershipNotFoundCode == RelationCode({"ErrMembershipNotFound"}) = "not_found"
<1> DEFINE err == {"ErrMembershipNotFound"}
<1>1. MatchesRow(RelationClientErrors, err, 2) /\ ~MatchesRow(RelationClientErrors, err, 1)
  BY RelationTable DEF MatchesRow
<1> HIDE DEF err
<1>2. \/ \A i \in 1..Len(RelationClientErrors) : ~MatchesRow(RelationClientErrors, err, i)
      \/ \E i \in 1..Len(RelationClientErrors) :
            /\ MatchesRow(RelationClientErrors, err, i)
            /\ \A j \in 1..(i - 1) : ~MatchesRow(RelationClientErrors, err, j)
            /\ For(RelationClientErrors, err) = RelationClientErrors[i].code
  <2>1. Len(RelationClientErrors) \in Nat
    BY RelationTable
  <2> QED  BY <2>1, ForFirst, Zenon
<1>3. PICK i \in 1..10 : /\ MatchesRow(RelationClientErrors, err, i)
                         /\ \A j \in 1..(i - 1) : ~MatchesRow(RelationClientErrors, err, j)
                         /\ For(RelationClientErrors, err) = RelationClientErrors[i].code
  BY <1>1, <1>2, RelationTable
<1>4. i = 2
  BY <1>1, <1>3
<1> QED  BY <1>3, <1>4, RelationTable DEF RelationCode, err

-----------------------------------------------------------------------------
(* Members *)

\* What everybody else does to a role is noted while a request reads roles, and
\* takes none away from the member whose row is locked.
LEMMA OthersRoles ==
    ASSUME db \in Rows, disturbed \subseteq Users, Others
    PROVE  /\ disturbed \subseteq disturbed' /\ disturbed' \subseteq Users
           /\ \A t \in Tenants, u \in Users :
                 /\ stage \in {"memberships", "eventRoles"} /\ u \notin disturbed' =>
                       db'.role[t][u] = db.role[t][u]
                 /\ u \in locked /\ db.role[t][u] # NoRole => db'.role[t][u] # NoRole
<1> DEFINE Good(d, touched) ==
      /\ touched \subseteq Users
      /\ \A t \in Tenants, u \in Users :
            /\ u \notin touched => d.role[t][u] = db.role[t][u]
            /\ u \in locked /\ db.role[t][u] # NoRole => d.role[t][u] # NoRole
<1>0. Contested \in Tenants /\ AskedStatuses \subseteq Statuses
  BY BoundaryAssumption
<1> DEFINE Goal == \E d, touched : OthersWrite(d, touched) /\ Good(d, touched)
<1> SUFFICES Goal
  <2>1. PICK d, touched : OthersWrite(d, touched) /\ Good(d, touched)
    OBVIOUS
  <2>2. /\ db' = d
        /\ disturbed' = IF stage \in {"memberships", "eventRoles"} THEN disturbed \cup touched
                                                                   ELSE disturbed
    BY <2>1 DEF OthersWrite
  <2> QED  BY <2>1, <2>2
<1>1. ASSUME NEW d, NEW touched, OthersWrite(d, touched), touched \subseteq Users, d.role = db.role
      PROVE  Goal
  BY <1>1
<1>1a. ASSUME NEW d, OthersWrite(d, {}), d.role = db.role PROVE Goal
  BY <1>1, <1>1a
<1>2. ASSUME NEW d \in Rows, d.role = db.role, NEW w \in Users, NEW v \in Held,
             OthersWrite(WithRole(d, Contested, w, v), {w}), w \in locked => v # NoRole
      PROVE  Goal
  <2> DEFINE e == WithRole(d, Contested, w, v)
  <2>1. /\ OnlyAt(d, e, Contested)
        /\ \A x \in Users \ {w} : e.role[Contested][x] = d.role[Contested][x]
        /\ e.role[Contested][w] = v
    BY <1>0, SetRole
  <2>2. "role" \in DOMAIN d
    BY DEF Rows
  <2>3. \A t \in Tenants \ {Contested} : e.role[t] = d.role[t]
    BY <2>1, <2>2 DEF OnlyAt
  <2> HIDE DEF e
  <2>4. Good(e, {w})
    BY <1>2, <2>1, <2>3
  <2> QED  BY <1>2, <2>4 DEF e
<1>3. ASSUME NEW v \in TenantStates
      PROVE  /\ [db EXCEPT !.tenant[Contested] = v] \in Rows
             /\ [db EXCEPT !.tenant[Contested] = v].role = db.role
  BY <1>0, SetTenant
<1>s. {"absent", "pending", "owned", "archived"} \subseteq TenantStates /\ "owner" \in Held /\ "owner" # NoRole
  BY DEF TenantStates, Held, GrantableRoles, NoRole
<1> HIDE DEF Goal, Good
<1>6. CASE OthersRegister
  <2>1. OthersWrite([db EXCEPT !.tenant[Contested] = "pending"], {})
    BY <1>6 DEF OthersRegister
  <2> QED  BY <1>1a, <1>3, <1>s, <2>1, Zenon
<1>7. CASE OthersSweep
  <2>1. OthersWrite([db EXCEPT !.tenant[Contested] = "absent"], {})
    BY <1>7 DEF OthersSweep
  <2> QED  BY <1>1a, <1>3, <1>s, <2>1, Zenon
<1>8. CASE OthersArchive
  <2>1. OthersWrite([db EXCEPT !.tenant[Contested] = "archived"], {})
    BY <1>8 DEF OthersArchive
  <2> QED  BY <1>1a, <1>3, <1>s, <2>1, Zenon
<1>9. ASSUME NEW w \in Users, OthersClaim(w) PROVE Goal
  <2> DEFINE d == [db EXCEPT !.tenant[Contested] = "owned"]
  <2>1. d \in Rows /\ d.role = db.role
    BY <1>3, <1>s
  <2>2. OthersWrite(WithRole(d, Contested, w, "owner"), {w})
    BY <1>9 DEF OthersClaim
  <2> HIDE DEF d
  <2> QED  BY <1>2, <1>s, <2>1, <2>2
<1>10. ASSUME NEW w \in Users, OthersCreateEvent(w) PROVE Goal
  <2>1. OthersWrite(WithEvent(db, Contested, w), {w})
    BY <1>10 DEF OthersCreateEvent
  <2> QED  BY <1>0, <1>1, <2>1, SetNewEvent
<1>11. ASSUME NEW w \in Users, NEW role \in Held, OthersSetRole(w, role) PROVE Goal
  <2>1. OthersWrite(WithRole(db, Contested, w, role), {w}) /\ w \notin locked
    BY <1>11 DEF OthersSetRole
  <2> QED  BY <1>2, <2>1
<1>12. ASSUME NEW w \in Users, NEW role \in Held, OthersSetEventRole(w, role) PROVE Goal
  <2>1. OthersWrite([db EXCEPT !.eventRole[Contested][w] = role], {w})
    BY <1>12 DEF OthersSetEventRole
  <2>2. [db EXCEPT !.eventRole[Contested][w] = role].role = db.role
    BY <1>0, SetEventRole
  <2>3. {w} \subseteq Users
    OBVIOUS
  <2> QED  BY <1>1, <2>1, <2>2, <2>3, Zenon
<1>13. ASSUME NEW to \in AskedStatuses, OthersTransition(to) PROVE Goal
  <2>1. OthersWrite([db EXCEPT !.event[Contested] = to], {})
    BY <1>13 DEF OthersTransition
  <2>2. [db EXCEPT !.event[Contested] = to].role = db.role
    BY <1>0, SetEvent
  <2> QED  BY <1>1a, <2>1, <2>2, Zenon
<1>14. ASSUME NEW state \in InvitationStates, OthersInvite(state) PROVE Goal
  <2>1. OthersWrite([db EXCEPT !.invitation[Contested] = state], {})
    BY <1>14 DEF OthersInvite
  <2>2. [db EXCEPT !.invitation[Contested] = state].role = db.role
    BY <1>0, SetInvitation
  <2> QED  BY <1>1a, <2>1, <2>2, Zenon
<1>15. Goal
  <2>1. CASE \E w \in Users : OthersClaim(w) \/ OthersCreateEvent(w)
    BY <1>9, <1>10, <2>1, Zenon
  <2>2. CASE \E w \in Users, role \in GrantableRoles \cup {NoRole} :
               OthersSetRole(w, role) \/ OthersSetEventRole(w, role)
    BY <1>11, <1>12, <2>2, Zenon DEF Held
  <2>3. CASE \E to \in AskedStatuses : OthersTransition(to)
    BY <1>13, <2>3, Zenon
  <2>4. CASE \E state \in InvitationStates : OthersInvite(state)
    BY <1>14, <2>4, Zenon
  <2> QED  BY <1>6, <1>7, <1>8, <2>1, <2>2, <2>3, <2>4, Zenon DEF Others
<1> QED  BY <1>15

\* A request that is under way has not failed, and has been applied just if it
\* is an addition that reads its row back.
FateInv ==
    /\ fate \in [applied : BOOLEAN, failed : BOOLEAN]
    /\ stage # "answered" => ~fate.failed
    /\ stage # "answered" /\ fate.applied =>
          req.proc = "AddTenantMember" /\ stage \in {"memberships", "eventRoles"}
    /\ stage \in {"memberships", "eventRoles"} /\ req.proc = "AddTenantMember" => fate.applied

\* What a request has seen of the roles is still so, for the member whose row
\* it has locked and for those that nobody wrote in the meantime.
MemberInv ==
    /\ disturbed \subseteq Users
    /\ Underway /\ req.proc = "CreateEvent" /\ stage = "write" =>
          SubjectFromContext(req) \in locked /\ RoleOf(req, req.tenant) # NoRole
    /\ stage = "memberships" /\ req.proc = "AddTenantMember" =>
          db.role[req.tenant][req.user] # NoRole \/ req.user \in disturbed
    /\ stage = "eventRoles" /\ req.proc = "ListMemberships" =>
          /\ DOMAIN seen \subseteq {u \in Users : req.user \in {u, Blank}}
          /\ \A u \in Users \ disturbed : req.user \in {u, Blank} =>
                /\ u \in DOMAIN seen <=> db.role[req.tenant][u] # NoRole
                /\ u \in DOMAIN seen => seen[u] = db.role[req.tenant][u]

LEMMA FateStep ==
    ASSUME RequestInv, FateInv, [Next]_vars
    PROVE  FateInv'
<1> DEFINE Typed == fate' \in [applied : BOOLEAN, failed : BOOLEAN]
<1>1. ASSUME stage' = "answered", Typed PROVE FateInv'
  BY <1>1 DEF FateInv
<1>2. ASSUME NEW code, NEW body, NEW r, Respond(code, body, r), Typed PROVE FateInv'
  BY <1>1, <1>2 DEF Respond
<1>3. fate' = fate => Typed
  BY DEF FateInv
<1>4. Underway => Admitted(req) /\ Placed
  BY DEF RequestInv
<1>5. ASSUME fate' = fate, stage # "answered", stage \notin {"memberships", "eventRoles"},
             stage' \in {"memberships", "eventRoles"} => req'.proc # "AddTenantMember"
      PROVE  FateInv'
  BY <1>3, <1>5 DEF FateInv
<1>6. CASE Arrive
  <2>1. stage = "idle"
    BY <1>6, ArriveServes
  <2>2. ASSUME NEW code, Refuse(code) PROVE FateInv'
    BY <1>2, <1>3, <2>2 DEF Refuse
  <2>3. ASSUME NEW r, NEW failure, Serve(r, failure) PROVE FateInv'
    <3>1. CASE failure # NoError
      BY <2>2, <2>3, <3>1 DEF Serve
    <3>2. CASE failure = NoError
      <4>1. stage' = FirstStage(r) /\ fate' = fate
        BY <2>3, <3>2 DEF Serve
      <4>2. stage' \notin {"memberships", "eventRoles"}
        BY <4>1 DEF FirstStage
      <4> QED  BY <1>5, <2>1, <4>1, <4>2
    <3> QED  BY <3>1, <3>2
  <2> QED  BY <1>6, <2>2, <2>3, ArriveServes
<1>7. CASE FindEvent
  <2>1. fate' = fate /\ stage = "event"
    BY <1>7 DEF FindEvent
  <2>2. stage' \in {"answered", "write", "tenant"}
    BY <1>7 DEF FindEvent, Reject, Answer, Respond, Goto
  <2> QED  BY <1>5, <2>1, <2>2
<1>8. CASE FindTenant
  <2>1. fate' = fate /\ stage = "tenant"
    BY <1>8 DEF FindTenant
  <2>2. CASE TenantGate(req) # NoError
    BY <1>2, <1>3, <1>8, <2>1, <2>2 DEF FindTenant, Reject
  <2>3. CASE TenantGate(req) = NoError
    <3>1. stage' = AfterTenant(req) /\ req' = req
      BY <1>8, <2>3 DEF FindTenant, Goto
    <3>2. req.proc = "AddTenantMember" => AfterTenant(req) = "write"
      BY DEF AfterTenant
    <3> QED  BY <1>5, <2>1, <3>1, <3>2
  <2> QED  BY <2>2, <2>3
<1>9. CASE Read \/ ReadEventRoles
  BY <1>2, <1>3, <1>9 DEF Read, ReadEventRoles, Reject, Answer
<1>10. CASE ReadMemberships
  <2>1. Placed /\ stage = "memberships" /\ fate' = fate
    BY <1>4, <1>10 DEF ReadMemberships, Underway
  <2>2. \/ stage' = "eventRoles" /\ req' = req
        \/ \E code, body, r : Respond(code, body, r)
    BY <1>10, <2>1 DEF Placed, ReadMemberships, Reject, Answer, Goto
  <2> QED  BY <1>2, <1>3, <2>1, <2>2 DEF FateInv
<1>11. CASE CurrentRole
  <2>1. fate' = fate /\ stage = "role"
    BY <1>11 DEF CurrentRole
  <2>2. stage' \in {"answered", "write"}
    BY <1>11 DEF CurrentRole, Reject, Respond, Goto
  <2> QED  BY <1>5, <2>1, <2>2
<1>12. CASE Write
  <2>1. CASE WriteChecks(req) # NoError
    BY <1>2, <1>3, <1>12, <2>1 DEF Write, Reject
  <2>2. CASE WriteChecks(req) = NoError
    <3>1. fate' = [fate EXCEPT !.applied = TRUE] /\ stage = "write"
      BY <1>12, <2>2 DEF Write
    <3>2. Typed /\ fate'.applied = TRUE /\ fate'.failed = fate.failed
      BY <3>1 DEF FateInv
    <3>3. CASE req.proc = "AddTenantMember"
      <4>1. stage' = "memberships" /\ req' = req
        BY <1>12, <2>2, <3>3 DEF Write, Goto
      <4> QED  BY <3>1, <3>2, <3>3, <4>1 DEF FateInv
    <3>4. CASE req.proc # "AddTenantMember"
      BY <1>2, <1>12, <2>2, <3>2, <3>4 DEF Write, Answer
    <3> QED  BY <3>3, <3>4
  <2> QED  BY <2>1, <2>2
<1>13. CASE FailStatement
  <2>1. Typed
    BY <1>13 DEF FailStatement, FateInv
  <2> QED  BY <1>2, <1>13, <2>1 DEF FailStatement, Reject
<1>14. CASE LoseCommitAnswer
  BY <1>2, <1>14 DEF LoseCommitAnswer
<1>15. CASE Send
  BY <1>15 DEF Send, NoFate, FateInv
<1>16. CASE Others
  BY <1>16, OthersLeave DEF FateInv
<1>17. CASE UNCHANGED vars
  BY <1>17 DEF vars, FateInv
<1> QED  BY <1>6, <1>7, <1>8, <1>9, <1>10, <1>11, <1>12, <1>13, <1>14, <1>15, <1>16, <1>17
         DEF Next, Arrive

LEMMA MemberStep ==
    ASSUME RequestInv, DataInv, MemberInv, [Next]_vars
    PROVE  MemberInv'
<1> DEFINE Kept == disturbed' \subseteq Users
<1>1. ASSUME disturbed' \in {disturbed, {}} PROVE Kept
  BY <1>1 DEF MemberInv
<1>2. ASSUME Kept, stage' \notin {"write", "memberships", "eventRoles"} PROVE MemberInv'
  BY <1>2 DEF MemberInv
<1>3. ASSUME NEW code, NEW body, NEW r, Respond(code, body, r), disturbed' \in {disturbed, {}}
      PROVE  MemberInv'
  BY <1>1, <1>2, <1>3 DEF Respond
<1>4. ASSUME disturbed' \in {disturbed, {}}, stage' = "write", req'.proc # "CreateEvent"
      PROVE  MemberInv'
  BY <1>1, <1>4 DEF MemberInv
<1>5. Underway => Admitted(req) /\ Placed
  BY DEF RequestInv
<1>6. CASE Arrive
  <2>1. ASSUME NEW code, Refuse(code) PROVE MemberInv'
    BY <1>3, <2>1 DEF Refuse
  <2>2. ASSUME NEW r, NEW failure, Serve(r, failure), failure = NoError => Admitted(r)
        PROVE  MemberInv'
    <3>1. CASE failure # NoError
      BY <2>1, <2>2, <3>1 DEF Serve
    <3>2. CASE failure = NoError
      <4>1. stage' = FirstStage(r) /\ req' = r /\ disturbed' = disturbed
        BY <2>2, <3>2 DEF Serve
      <4>2. /\ stage' \notin {"memberships", "eventRoles"}
            /\ r.proc = "CreateEvent" => stage' # "write"
        BY <2>2, <3>2, <4>1 DEF FirstStage, Admitted, EventProcedures
      <4> QED  BY <1>1, <1>2, <1>4, <4>1, <4>2
    <3> QED  BY <3>1, <3>2
  <2> QED  BY <1>6, <2>1, <2>2, ArriveServes
<1>7. CASE FindEvent
  <2>1. disturbed' = disturbed /\ stage = "event" /\ Admitted(req) /\ req.event # Blank
    BY <1>5, <1>7 DEF FindEvent, Underway, Placed
  <2>2. \/ stage' \in {"answered", "tenant"}
        \/ stage' = "write" /\ req' = req /\ req.proc = "TransitionEventStatus"
    BY <1>7 DEF FindEvent, Reject, Answer, Respond, Goto
  <2> QED  BY <1>1, <1>2, <1>4, <2>1, <2>2
<1>8. CASE FindTenant
  <2>1. disturbed' = {} /\ stage = "tenant"
    BY <1>8 DEF FindTenant
  <2>2. CASE TenantGate(req) # NoError
    BY <1>3, <1>8, <2>1, <2>2 DEF FindTenant, Reject
  <2>3. CASE TenantGate(req) = NoError
    <3>1. stage' = AfterTenant(req) /\ req' = req
      BY <1>8, <2>3 DEF FindTenant, Goto
    <3>2. CASE req.proc = "ListMemberships"
      <4>1. stage' = "memberships"
        BY <3>1, <3>2 DEF AfterTenant
      <4> QED  BY <1>1, <2>1, <3>1, <3>2, <4>1 DEF MemberInv
    <3>3. CASE req.proc = "CreateEvent"
      BY <1>1, <1>2, <2>1, <3>1, <3>3 DEF AfterTenant
    <3>4. CASE req.proc \notin {"ListMemberships", "CreateEvent"}
      BY <1>1, <1>2, <1>4, <2>1, <3>1, <3>4 DEF AfterTenant
    <3> QED  BY <3>2, <3>3, <3>4
  <2> QED  BY <2>2, <2>3
<1>9. CASE Read \/ ReadEventRoles
  BY <1>3, <1>9 DEF Read, ReadEventRoles, Reject, Answer
<1>10. CASE ReadMemberships
  <2> DEFINE rows == {u \in Users : /\ req.user \in {u, Blank}
                                    /\ db.role[req.tenant][u] # NoRole}
  <2>1. /\ Placed /\ stage = "memberships" /\ db' = db
        /\ disturbed' = IF req.proc = "AddTenantMember" THEN disturbed ELSE {}
    BY <1>5, <1>10 DEF ReadMemberships, Underway
  <2>2. CASE rows = {}
    BY <1>3, <1>10, <2>1, <2>2 DEF Placed, ReadMemberships, Reject, Answer
  <2>3. CASE rows # {}
    <3>1. /\ stage' = "eventRoles" /\ req' = req
          /\ seen' = [u \in rows |-> db.role[req.tenant][u]]
      BY <1>10, <2>3 DEF ReadMemberships, Goto
    <3>2. CASE req.proc = "AddTenantMember"
      BY <1>1, <2>1, <3>1, <3>2 DEF MemberInv
    <3>3. CASE req.proc # "AddTenantMember"
      BY <1>1, <2>1, <3>1, <3>3 DEF MemberInv
    <3> QED  BY <3>2, <3>3
  <2> QED  BY <2>2, <2>3
<1>11. CASE CurrentRole
  <2>1. disturbed' = disturbed /\ db' = db
    BY <1>11 DEF CurrentRole
  <2>2. CASE RoleOf(req, req.tenant) = NoRole
    BY <1>3, <1>11, <2>1, <2>2 DEF CurrentRole, Reject
  <2>3. CASE RoleOf(req, req.tenant) # NoRole
    <3>1. stage' = "write" /\ req' = req /\ locked' = {SubjectFromContext(req)}
      BY <1>11, <2>3 DEF CurrentRole, Goto
    <3>2. RoleOf(req, req.tenant)' = RoleOf(req, req.tenant)
      BY <2>1, <3>1 DEF RoleOf
    <3> QED  BY <1>1, <2>1, <2>3, <3>1, <3>2 DEF MemberInv
  <2> QED  BY <2>2, <2>3
<1>12. CASE Write
  <2>1. disturbed' = disturbed /\ stage = "write"
    BY <1>12 DEF Write
  <2>2. CASE WriteChecks(req) # NoError
    BY <1>3, <1>12, <2>1, <2>2 DEF Write, Reject
  <2>3. CASE WriteChecks(req) = NoError /\ req.proc # "AddTenantMember"
    BY <1>3, <1>12, <2>1, <2>3 DEF Write, Answer
  <2>4. CASE WriteChecks(req) = NoError /\ req.proc = "AddTenantMember"
    <3>1. stage' = "memberships" /\ req' = req /\ db' = Effect(req)
      BY <1>12, <2>4 DEF Write, Goto
    <3>2. Target(req) \in Tenants /\ req.tenant = Target(req) /\ Admitted(req)
      BY <1>5, <2>1, <2>4, TargetIsContext DEF Underway, Unscoped
    <3>3. req.user \in Users /\ req.role \in GrantableRoles
      BY <2>4, <3>2 DEF Admitted, Asked
    <3>4. Effect(req) = WithRole(db, req.tenant, req.user, req.role)
      BY <2>4, <3>2 DEF Effect
    <3>5. db'.role[req.tenant][req.user] = req.role
      BY <3>1, <3>2, <3>3, <3>4, SetRole DEF DataInv, Held
    <3>6. req.role # NoRole
      BY <3>3 DEF GrantableRoles, NoRole
    <3> QED  BY <1>1, <2>1, <2>4, <3>1, <3>5, <3>6 DEF MemberInv
  <2> QED  BY <2>2, <2>3, <2>4
<1>13. CASE FailStatement \/ LoseCommitAnswer
  BY <1>3, <1>13 DEF FailStatement, LoseCommitAnswer, Reject
<1>14. CASE Send
  BY <1>1, <1>2, <1>14 DEF Send
<1>15. CASE Others
  <2>1. UNCHANGED <<stage, req, seen, locked>>
    BY <1>15, OthersLeave
  <2>2. /\ disturbed \subseteq disturbed' /\ disturbed' \subseteq Users
        /\ \A t \in Tenants, u \in Users :
              /\ stage \in {"memberships", "eventRoles"} /\ u \notin disturbed' =>
                    db'.role[t][u] = db.role[t][u]
              /\ u \in locked /\ db.role[t][u] # NoRole => db'.role[t][u] # NoRole
    BY <1>15, OthersRoles DEF DataInv, MemberInv
  <2>3. stage \in {"write", "memberships", "eventRoles"} /\ req.proc \notin Unscoped =>
           /\ Admitted(req)
           /\ req.proc # "TransitionEventStatus" => req.tenant \in Tenants
    BY <1>5, TargetIsContext DEF Underway
  <2>4. CASE stage = "write" /\ req.proc = "CreateEvent"
    <3>1. SubjectFromContext(req) \in locked /\ RoleOf(req, req.tenant) # NoRole
      BY <2>4 DEF MemberInv, Underway
    <3>2. req.tenant \in Tenants /\ SubjectFromContext(req) \in Users
      BY <2>3, <2>4, <3>1 DEF Unscoped, RoleOf
    <3>3. RoleOf(req, req.tenant)' # NoRole
      BY <2>1, <2>2, <3>1, <3>2 DEF RoleOf, SubjectFromContext
    <3> QED  BY <2>1, <2>2, <2>4, <3>1, <3>3 DEF MemberInv, SubjectFromContext
  <2>5. CASE stage = "memberships" /\ req.proc = "AddTenantMember"
    <3>1. req.tenant \in Tenants /\ req.user \in Users
      BY <2>3, <2>5 DEF Unscoped, Admitted, Asked
    <3> QED  BY <2>1, <2>2, <2>5, <3>1 DEF MemberInv
  <2>6. CASE stage = "eventRoles" /\ req.proc = "ListMemberships"
    <3>1. req.tenant \in Tenants
      BY <2>3, <2>6 DEF Unscoped
    <3>2. \A u \in Users \ disturbed' : db'.role[req.tenant][u] = db.role[req.tenant][u]
      BY <2>2, <2>6, <3>1
    <3>3. /\ DOMAIN seen \subseteq {u \in Users : req.user \in {u, Blank}}
          /\ \A u \in Users \ disturbed' : req.user \in {u, Blank} =>
                /\ u \in DOMAIN seen <=> db.role[req.tenant][u] # NoRole
                /\ u \in DOMAIN seen => seen[u] = db.role[req.tenant][u]
      BY <2>2, <2>6 DEF MemberInv
    <3> QED  BY <2>1, <2>2, <2>6, <3>2, <3>3 DEF MemberInv
  <2> QED  BY <2>1, <2>2, <2>4, <2>5, <2>6 DEF MemberInv
<1>16. CASE UNCHANGED vars
  BY <1>16 DEF vars, MemberInv, Underway, RoleOf
<1> QED  BY <1>6, <1>7, <1>8, <1>9, <1>10, <1>11, <1>12, <1>13, <1>14, <1>15, <1>16
         DEF Next, Arrive

\* A request that failed is forgotten, or it is an addition that was applied.
LEMMA RejectForgets ==
    ASSUME FateInv, stage # "answered", NEW err, Reject(req, err)
    PROVE  /\ stage' = "answered" /\ answer' = [code |-> CodeOf(req, err), body |-> {}]
           /\ \/ req'.proc = "none"
              \/ req' = req /\ req.proc = "AddTenantMember" /\ fate.applied
<1>1. /\ stage' = "answered" /\ answer' = [code |-> CodeOf(req, err), body |-> {}]
      /\ req' = IF fate.applied THEN req ELSE Empty
  BY DEF Reject, Respond
<1>2. Empty.proc = "none"
  BY DEF Empty
<1> QED  BY <1>1, <1>2 DEF FateInv

\* Where an answer to a listing comes from.
LEMMA ListingAnswered ==
    ASSUME RequestInv, FateInv, [Next]_vars, stage # "answered", stage' = "answered",
           req'.proc = "ListMemberships"
    PROVE  \/ ReadMemberships /\ Answer(req, {})
           \/ ReadEventRoles /\ VerifyOwnership(req, req.tenant) = NoError
<1>1. Underway => Admitted(req) /\ Placed
  BY DEF RequestInv
<1>2. \A err : ~Reject(req, err)
  BY RejectForgets
<1>3. \A code : ~Refuse(code)
  <2>1. ASSUME NEW code, Refuse(code) PROVE FALSE
    BY <2>1 DEF Refuse, Respond, Empty
  <2> QED  BY <2>1
<1>4. \A body : Answer(req, body) => req' = req
  BY DEF Answer, Respond
<1>5. ~Arrive
  <2> SUFFICES ASSUME Arrive PROVE FALSE
    OBVIOUS
  <2>1. PICK r, failure : Serve(r, failure)
    BY <1>3, ArriveServes
  <2>2. stage' = FirstStage(r)
    BY <1>3, <2>1 DEF Serve
  <2> QED  BY <2>2 DEF FirstStage
<1>6. ~FindEvent
  <2> SUFFICES ASSUME FindEvent PROVE FALSE
    OBVIOUS
  <2>1. EventGate(req) = NoError
    BY <1>2 DEF FindEvent
  <2>2. req.proc = "GetEvent" => req' = req
    BY <1>4, <2>1 DEF FindEvent
  <2>3. req.proc # "GetEvent" => stage' # "answered"
    BY <2>1 DEF FindEvent, Goto
  <2> QED  BY <2>2, <2>3
<1>7. ~FindTenant
  BY <1>2 DEF FindTenant, Goto, AfterTenant
<1>8. ~Read
  <2> SUFFICES ASSUME Read PROVE FALSE
    OBVIOUS
  <2>1. Placed /\ stage = "read"
    BY <1>1 DEF Read, Underway
  <2>2. req' = req
    BY <1>2, <1>4 DEF Read
  <2> QED  BY <2>1, <2>2 DEF Placed
<1>9. ~CurrentRole
  BY <1>2 DEF CurrentRole, Goto
<1>10. ~Write
  <2> SUFFICES ASSUME Write PROVE FALSE
    OBVIOUS
  <2>1. Placed /\ stage = "write"
    BY <1>1 DEF Write, Underway
  <2>2. req' = req
    BY <1>2, <1>4 DEF Write, Goto
  <2> QED  BY <2>1, <2>2 DEF Placed, Reads
<1>11. ~FailStatement
  BY <1>2 DEF FailStatement
<1>12. ~LoseCommitAnswer
  <2> SUFFICES ASSUME LoseCommitAnswer PROVE FALSE
    OBVIOUS
  <2>1. Placed /\ stage = "write" /\ req' = req
    BY <1>1 DEF LoseCommitAnswer, Respond, Underway
  <2> QED  BY <2>1 DEF Placed, Reads
<1>13. ~Send /\ ~Others /\ ~UNCHANGED vars
  BY OthersLeave DEF Send, vars
<1>14. CASE ReadMemberships
  <2> DEFINE rows == {u \in Users : /\ req.user \in {u, Blank}
                                    /\ db.role[req.tenant][u] # NoRole}
  <2>1. Placed /\ stage = "memberships"
    BY <1>1, <1>14 DEF ReadMemberships, Underway
  <2>2. rows = {}
    BY <1>14 DEF ReadMemberships, Goto
  <2> QED  BY <1>2, <1>14, <2>1, <2>2 DEF ReadMemberships, Placed
<1>15. CASE ReadEventRoles
  BY <1>2, <1>15 DEF ReadEventRoles
<1> QED  BY <1>5, <1>6, <1>7, <1>8, <1>9, <1>10, <1>11, <1>12, <1>13, <1>14, <1>15
         DEF Next, Arrive

LEMMA ListingStep ==
    ASSUME RequestInv, FateInv, MemberInv, UndisturbedMembersExact, [Next]_vars
    PROVE  UndisturbedMembersExact'
<1> DEFINE exact(u) == IF db'.role[req'.tenant][u] = NoRole
                         THEN {} ELSE {MembershipOf(req', req'.tenant, u, db'.role[req'.tenant][u],
                                                    db'.eventRole[req'.tenant][u])}
<1>1. CASE stage = "answered"
  <2>1. stage' # "answered" \/ UNCHANGED vars
    BY <1>1, OthersLeave, ArriveServes
       DEF Next, Arrive, FindEvent, FindTenant, Read, ReadMemberships, ReadEventRoles, CurrentRole,
           Write, FailStatement, LoseCommitAnswer, Send
  <2> QED  BY <2>1 DEF vars, UndisturbedMembersExact
<1>2. CASE stage # "answered"
  <2> SUFFICES ASSUME stage' = "answered", req'.proc = "ListMemberships",
                      NEW u \in Users \ disturbed', req'.user \in {u, Blank}
               PROVE  {row \in answer'.body : row.userId = u} = exact(u)
    BY DEF UndisturbedMembersExact
  <2>1. CASE ReadMemberships /\ Answer(req, {})
    <3> DEFINE rows == {w \in Users : /\ req.user \in {w, Blank}
                                      /\ db.role[req.tenant][w] # NoRole}
    <3>1. req' = req /\ answer'.body = {} /\ db' = db /\ stage' = "answered"
      BY <2>1 DEF Answer, Respond, ReadMemberships
    <3>2. rows = {}
      BY <2>1, <3>1 DEF ReadMemberships, Goto
    <3>3. db.role[req.tenant][u] = NoRole
      BY <3>1, <3>2
    <3> QED  BY <3>1, <3>3
  <2>2. CASE ReadEventRoles /\ VerifyOwnership(req, req.tenant) = NoError
    <3> DEFINE row(w) == MembershipOf(req, req.tenant, w, seen[w], EventRoleOfRow(req.tenant, w))
    <3>1. /\ req' = req /\ answer'.body = {row(w) : w \in DOMAIN seen}
          /\ db' = db /\ disturbed' = disturbed /\ stage = "eventRoles"
      BY <2>2 DEF Answer, Respond, ReadEventRoles
    <3>2. /\ u \in DOMAIN seen <=> db.role[req.tenant][u] # NoRole
          /\ u \in DOMAIN seen => seen[u] = db.role[req.tenant][u]
      BY <3>1 DEF MemberInv
    <3>3. \A w : row(w).userId = w
      BY DEF MembershipOf, membershipProto, membershipsBody
    <3>4. u \in DOMAIN seen => row(u) = MembershipOf(req, req.tenant, u, db.role[req.tenant][u],
                                                     db.eventRole[req.tenant][u])
      BY <3>2 DEF EventRoleOfRow
    <3> HIDE DEF row
    <3> QED  BY <3>1, <3>2, <3>3, <3>4
  <2> QED  BY <1>2, <2>1, <2>2, ListingAnswered
<1> QED  BY <1>1, <1>2

LEMMA MembersAlways == Spec => [](RequestInv /\ DataInv /\ FateInv /\ MemberInv)
<1>1. Init => FateInv /\ MemberInv
  BY DEF Init, NoFate, FateInv, MemberInv
<1>2. RequestInv /\ DataInv /\ FateInv /\ MemberInv /\ [Next]_vars => FateInv' /\ MemberInv'
  BY FateStep, MemberStep
<1> QED  BY <1>1, <1>2, InvAlways, PTL DEF Spec

\* A member whom nobody wrote while a listing was made is listed exactly as it
\* is, for any number of members and whatever happens to the others between the
\* two statements.
THEOREM MembersAlwaysExact == Spec => []UndisturbedMembersExact
<1>1. Init => UndisturbedMembersExact
  BY DEF Init, UndisturbedMembersExact
<1>2. RequestInv /\ FateInv /\ MemberInv /\ UndisturbedMembersExact /\ [Next]_vars =>
         UndisturbedMembersExact'
  BY ListingStep
<1> QED  BY <1>1, <1>2, MembersAlways, PTL DEF Spec

-----------------------------------------------------------------------------
(* Effects *)

\* The code of a failure of the database, wherever it is mapped.
LEMMA FailureCodes ==
    ASSUME NEW r, r.proc \in RelationProcedures \cup TenantProcedures, r.http = FALSE,
           NEW err \in {{}, {Canceled}, {DeadlineExceeded}}
    PROVE  CodeOf(r, err) \in {"internal", "canceled", "deadline_exceeded"}
<1>1. RelationProcedures \cap TenantProcedures = {}
  BY DEF RelationProcedures, TenantProcedures
<1>2. CASE r.proc \in RelationProcedures
  <2>1. CodeOf(r, err) = For(RelationClientErrors, err)
    BY <1>1, <1>2 DEF CodeOf, RelationCode
  <2> QED  BY <2>1, Tables, TableCodes
<1>3. CASE r.proc \in TenantProcedures
  <2>1. CodeOf(r, err) = For(TenantClientErrors, err)
    BY <1>1, <1>3 DEF CodeOf, TenantCode
  <2> QED  BY <2>1, Tables, TableCodes
<1> QED  BY <1>2, <1>3

\* An answer that says what has been done.
Truthful ==
    /\ answer.code = "ok" /\ req.proc \notin Reads => fate.applied
    /\ fate.applied =>
          \/ answer.code \in {"ok", "internal", "canceled", "deadline_exceeded"}
          \/ /\ req.proc = "AddTenantMember"
             /\ answer.code = "not_found"
             /\ req.user \in disturbed

LEMMA EffectStep ==
    ASSUME RequestInv, FateInv, MemberInv, AnswerMatchesEffect, [Next]_vars
    PROVE  AnswerMatchesEffect'
<1>1. CASE stage = "answered"
  <2>1. stage' # "answered" \/ UNCHANGED vars
    BY <1>1, OthersLeave, ArriveServes
       DEF Next, Arrive, FindEvent, FindTenant, Read, ReadMemberships, ReadEventRoles, CurrentRole,
           Write, FailStatement, LoseCommitAnswer, Send
  <2> QED  BY <2>1 DEF vars, AnswerMatchesEffect
<1>2. CASE stage # "answered"
  <2> SUFFICES ASSUME stage' = "answered", req'.proc # "none"
               PROVE  Truthful'
    BY DEF AnswerMatchesEffect, Truthful
  <2>1. Underway => Admitted(req) /\ Placed
    BY DEF RequestInv
  <2>2. ASSUME NEW err, Reject(req, err), fate'.applied = fate.applied,
               \/ CodeOf(req, err) \in {"internal", "canceled", "deadline_exceeded"}
               \/ CodeOf(req, err) = "not_found" /\ req.user \in disturbed'
               \/ ~fate.applied
        PROVE  Truthful'
    <3>1. /\ answer' = [code |-> CodeOf(req, err), body |-> {}]
          /\ req' = req /\ req.proc = "AddTenantMember" /\ fate.applied
      BY <1>2, <2>2, RejectForgets
    <3> QED  BY <2>2, <3>1 DEF Truthful
  <2>3. \A code : ~Refuse(code)
    <3>1. ASSUME NEW code, Refuse(code) PROVE FALSE
      BY <3>1 DEF Refuse, Respond, Empty
    <3> QED  BY <3>1
  <2>4. ASSUME NEW body, Answer(req, body), req.proc \notin Reads => fate'.applied PROVE Truthful'
    <3>1. answer' = [code |-> "ok", body |-> body] /\ req' = req
      BY <2>4 DEF Answer, Respond
    <3> QED  BY <2>4, <3>1 DEF Truthful
  <2>5. stage \notin {"memberships", "eventRoles"} => ~fate.applied
    BY <1>2 DEF FateInv
  <2>6. ~Arrive
    <3> SUFFICES ASSUME Arrive PROVE FALSE
      OBVIOUS
    <3>1. PICK r, failure : Serve(r, failure)
      BY <2>3, ArriveServes
    <3>2. stage' = FirstStage(r)
      BY <2>3, <3>1 DEF Serve
    <3> QED  BY <3>2 DEF FirstStage
  <2>7. CASE FindEvent
    <3>1. stage = "event" /\ fate' = fate
      BY <2>7 DEF FindEvent
    <3>2. CASE EventGate(req) # NoError
      BY <2>2, <2>5, <2>7, <3>1, <3>2 DEF FindEvent
    <3>3. CASE EventGate(req) = NoError
      <4>1. req.proc = "GetEvent"
        BY <2>7, <3>3 DEF FindEvent, Goto
      <4> QED  BY <2>4, <2>7, <3>3, <4>1 DEF FindEvent, Reads
    <3> QED  BY <3>2, <3>3
  <2>8. CASE FindTenant
    <3>1. stage = "tenant" /\ fate' = fate
      BY <2>8 DEF FindTenant
    <3>2. TenantGate(req) # NoError
      BY <2>8 DEF FindTenant, Goto, AfterTenant
    <3> QED  BY <2>2, <2>5, <2>8, <3>1, <3>2 DEF FindTenant
  <2>9. CASE Read
    <3>1. stage = "read" /\ fate' = fate /\ Placed
      BY <2>1, <2>9 DEF Read, Underway
    <3>2. req.proc \in Reads
      BY <3>1 DEF Placed, Reads
    <3> QED  BY <2>2, <2>4, <2>5, <2>9, <3>1, <3>2 DEF Read
  <2>10. CASE ReadMemberships
    <3> DEFINE rows == {u \in Users : /\ req.user \in {u, Blank}
                                      /\ db.role[req.tenant][u] # NoRole}
    <3>1. Placed /\ Admitted(req) /\ stage = "memberships" /\ fate' = fate
      BY <2>1, <2>10 DEF ReadMemberships, Underway
    <3>2. rows = {}
      BY <2>10 DEF ReadMemberships, Goto
    <3>3. CASE req.proc = "ListMemberships"
      BY <2>4, <2>10, <3>2, <3>3 DEF ReadMemberships, Reads
    <3>4. CASE req.proc = "AddTenantMember"
      <4>1. Reject(req, {"ErrMembershipNotFound"}) /\ disturbed' = disturbed
        BY <2>10, <3>2, <3>4 DEF ReadMemberships
      <4>2. req.user \in Users /\ req.http = FALSE
        BY <3>1, <3>4 DEF Admitted, Asked
      <4>3. req.user \in disturbed
        BY <3>1, <3>2, <3>4, <4>2 DEF MemberInv
      <4>4. CodeOf(req, {"ErrMembershipNotFound"}) = "not_found"
        BY <3>4, <4>2, MembershipNotFoundCode DEF CodeOf, RelationProcedures, TenantProcedures
      <4> QED  BY <2>2, <3>1, <4>1, <4>3, <4>4
    <3> QED  BY <3>1, <3>3, <3>4 DEF Placed
  <2>11. CASE ReadEventRoles
    <3>1. Placed /\ stage = "eventRoles" /\ fate' = fate
      BY <2>1, <2>11 DEF ReadEventRoles, Underway
    <3>2. req.proc \in {"ListMemberships", "AddTenantMember"}
      BY <3>1 DEF Placed
    <3>3. TenantPublicIDFromContext(req) = req.tenant
      BY <3>1, <3>2, TargetIsContext DEF Underway, Unscoped
    <3>4. VerifyOwnership(req, req.tenant) = NoError
      BY <3>3 DEF VerifyOwnership, FailIf
    <3>5. req.proc \notin Reads => fate'.applied
      BY <3>1, <3>2 DEF FateInv, Reads
    <3> QED  BY <2>4, <2>11, <3>4, <3>5 DEF ReadEventRoles
  <2>12. CASE CurrentRole
    <3>1. stage = "role" /\ fate' = fate
      BY <2>12 DEF CurrentRole
    <3> QED  BY <2>2, <2>5, <2>12, <3>1 DEF CurrentRole, Goto
  <2>13. CASE Write
    <3>1. stage = "write"
      BY <2>13 DEF Write
    <3>2. CASE WriteChecks(req) # NoError
      BY <2>2, <2>5, <2>13, <3>1, <3>2 DEF Write
    <3>3. CASE WriteChecks(req) = NoError
      <4>1. fate'.applied
        BY <2>13, <3>3 DEF Write, FateInv
      <4>2. req.proc # "AddTenantMember"
        BY <2>13, <3>3 DEF Write, Goto
      <4> QED  BY <2>4, <2>13, <3>3, <4>1, <4>2 DEF Write
    <3> QED  BY <3>2, <3>3
  <2>14. CASE FailStatement
    <3>1. Admitted(req) /\ Placed /\ fate'.applied = fate.applied
      BY <2>1, <2>14 DEF FailStatement, Underway, FateInv
    <3>2. PICK err \in Failures(req) : Reject(req, err)
      BY <2>14 DEF FailStatement
    <3>3. fate.applied => err \in {{}, {Canceled}, {DeadlineExceeded}} /\ req.http = FALSE
      BY <1>2, <3>1 DEF Failures, FateInv, Admitted
    <3>4. fate.applied => CodeOf(req, err) \in {"internal", "canceled", "deadline_exceeded"}
      BY <3>1, <3>3, FailureCodes DEF Admitted
    <3> QED  BY <2>2, <3>1, <3>2, <3>4
  <2>15. CASE LoseCommitAnswer
    <3>1. Admitted(req) /\ Placed /\ stage = "write"
      BY <2>1, <2>15 DEF LoseCommitAnswer, Underway
    <3>2. PICK err \in {{}, {Canceled}, {DeadlineExceeded}} : Respond(CodeOf(req, err), {}, req)
      BY <2>15 DEF LoseCommitAnswer, CommitErrors
    <3>3. req.http = FALSE
      BY <3>1 DEF Admitted, Placed, Reads
    <3>4. CodeOf(req, err) \in {"internal", "canceled", "deadline_exceeded"}
      BY <3>1, <3>3, FailureCodes DEF Admitted
    <3>5. fate'.applied /\ answer'.code = CodeOf(req, err)
      BY <2>15, <3>2 DEF LoseCommitAnswer, Respond
    <3> QED  BY <3>4, <3>5 DEF Truthful
  <2>16. ~Send /\ ~Others /\ ~UNCHANGED vars
    BY <1>2, OthersLeave DEF Send, vars
  <2> QED  BY <2>6, <2>7, <2>8, <2>9, <2>10, <2>11, <2>12, <2>13, <2>14, <2>15, <2>16
           DEF Next, Arrive
<1> QED  BY <1>1, <1>2

\* A write that is answered with success has been applied, and one answered
\* with a code that blames the caller or asks for a retry has not, for any
\* tenants and users; an addition that finds its row revoked is the exception.
THEOREM AnswersAlwaysMatch == Spec => []AnswerMatchesEffect
<1>1. Init => AnswerMatchesEffect
  BY DEF Init, AnswerMatchesEffect
<1>2. RequestInv /\ FateInv /\ MemberInv /\ AnswerMatchesEffect /\ [Next]_vars =>
         AnswerMatchesEffect'
  BY EffectStep
<1> QED  BY <1>1, <1>2, MembersAlways, PTL DEF Spec

-----------------------------------------------------------------------------
(* Refusals *)

\* The outcomes of checks that report errors of E only.
Outcomes(E) == {NoError} \cup {{e} : e \in E}

\* What the checks of both services report.
CommonErrors ==
    {"ErrTenantIDRequired", "ErrEventIDRequired", "ErrDisplayNameRequired",
     "ErrDisplayNameTooLong", "ErrMissing", "ErrMismatch", "ErrSubjectMissing",
     "ErrPermissionDenied", "ErrTenantPendingOwner", "ErrTenantArchived",
     "tenantrepository.ErrTenantNotFound", "tenantrepository.ErrEventNotFound"}

RelationErrors == CommonErrors \cup
    {"ErrUserIDRequired", "ErrRoleRequired", "ErrRoleReserved", "ErrScopeAmbiguous",
     "ErrScopeRequired", "ErrFilterAmbiguous", "ErrFilterRequired", "ErrRoleNotInvitable",
     "ErrInvitationIDRequired", "ErrInvitationTokenRequired", "ErrEventArchived",
     "ErrLastOwner", "ErrMembershipNotFound", "ErrMembershipAlreadyExists",
     "ErrTenantMembershipRequired", "ErrEventRoleNotFound", "ErrInvitationNotFound",
     "ErrInvitationNotPending", "ErrInvitationRejected"}

TenantErrors == CommonErrors \cup
    {"ErrTenantNameRequired", "ErrTenantContractPlanRequired",
     "ErrOwnershipClaimTokenRequired", "ErrInvalidSubdomain", "ErrSubdomainRequired",
     "ErrEventNameRequired", "ErrEventStatusRequired", "ErrInvalidEventStatusTransition",
     "ErrCreatorNotMember", "ErrOwnershipClaimRejected", "ErrTenantSubdomainExists"}

ErrorsOf(r) == IF r.proc \in RelationProcedures THEN RelationErrors ELSE TenantErrors

LEMMA RelationErrorsMapped == \A e \in RelationErrors : Mapped(RelationClientErrors, e)
<1> DEFINE T(i) == RelationClientErrors[i].targets
<1>1. \A i \in 1..10 : \A e : e \in T(i) => Mapped(RelationClientErrors, e)
  BY RelationTable DEF Mapped
<1>2. /\ {"ErrTenantIDRequired", "ErrEventIDRequired", "ErrDisplayNameRequired",
          "ErrDisplayNameTooLong", "ErrUserIDRequired", "ErrRoleRequired", "ErrRoleReserved",
          "ErrScopeAmbiguous", "ErrScopeRequired", "ErrFilterAmbiguous", "ErrFilterRequired",
          "ErrRoleNotInvitable", "ErrInvitationIDRequired", "ErrInvitationTokenRequired"}
            \subseteq T(1)
      /\ {"tenantrepository.ErrTenantNotFound", "tenantrepository.ErrEventNotFound",
          "ErrMembershipNotFound", "ErrInvitationNotFound"} \subseteq T(2)
      /\ "ErrInvitationNotPending" \in T(4)
      /\ "ErrInvitationRejected" \in T(5)
      /\ "ErrEventRoleNotFound" \in T(6)
      /\ {"ErrTenantArchived", "ErrEventArchived", "ErrTenantPendingOwner", "ErrLastOwner",
          "ErrMembershipAlreadyExists", "ErrTenantMembershipRequired"} \subseteq T(7)
      /\ {"ErrMismatch", "ErrPermissionDenied"} \subseteq T(8)
      /\ {"ErrMissing", "ErrSubjectMissing"} \subseteq T(9)
  BY DEF RelationClientErrors, Row
<1>3. ASSUME NEW e \in RelationErrors
      PROVE  e \in T(1) \cup T(2) \cup T(4) \cup T(5) \cup T(6) \cup T(7) \cup T(8) \cup T(9)
  <2> HIDE DEF T
  <2> QED  BY <1>2, <1>3 DEF RelationErrors, CommonErrors
<1> HIDE DEF T
<1> QED  BY <1>1, <1>3

LEMMA TenantErrorsMapped == \A e \in TenantErrors : Mapped(TenantClientErrors, e)
<1> DEFINE T(i) == TenantClientErrors[i].targets
<1>1. \A i \in 1..7 : \A e : e \in T(i) => Mapped(TenantClientErrors, e)
  BY TenantTable DEF Mapped
<1>2. /\ {"ErrTenantNameRequired", "ErrTenantContractPlanRequired", "ErrTenantIDRequired",
          "ErrOwnershipClaimTokenRequired", "ErrEventNameRequired", "ErrEventIDRequired",
          "ErrEventStatusRequired", "ErrSubdomainRequired", "ErrInvalidSubdomain",
          "ErrDisplayNameRequired", "ErrDisplayNameTooLong"} \subseteq T(1)
      /\ "ErrTenantSubdomainExists" \in T(2)
      /\ {"tenantrepository.ErrTenantNotFound", "tenantrepository.ErrEventNotFound"}
            \subseteq T(3)
      /\ {"ErrTenantPendingOwner", "ErrTenantArchived", "ErrInvalidEventStatusTransition",
          "ErrCreatorNotMember"} \subseteq T(4)
      /\ {"ErrPermissionDenied", "ErrMismatch", "ErrOwnershipClaimRejected"} \subseteq T(5)
      /\ {"ErrSubjectMissing", "ErrMissing"} \subseteq T(6)
  BY DEF TenantClientErrors, Row
<1>3. ASSUME NEW e \in TenantErrors
      PROVE  e \in T(1) \cup T(2) \cup T(3) \cup T(4) \cup T(5) \cup T(6)
  <2> HIDE DEF T
  <2> QED  BY <1>2, <1>3 DEF TenantErrors, CommonErrors
<1> HIDE DEF T
<1> QED  BY <1>1, <1>3

\* The codes of a refusal, none of which is "internal".
RefusalCodes == Codes \ {"ok", "internal"}

\* What a service reports has a row in its table.
LEMMA RefusalMapped ==
    ASSUME NEW r, r.proc \in RelationProcedures \cup TenantProcedures, r.http = FALSE,
           NEW failure \in Outcomes(ErrorsOf(r)), failure # NoError
    PROVE  CodeOf(r, failure) \in RefusalCodes
<1>1. RelationProcedures \cap TenantProcedures = {}
  BY DEF RelationProcedures, TenantProcedures
<1>2. PICK e \in ErrorsOf(r) : failure = {e}
  BY DEF Outcomes
<1>3. CASE r.proc \in RelationProcedures
  <2>1. CodeOf(r, failure) = For(RelationClientErrors, {e})
    BY <1>1, <1>2, <1>3 DEF CodeOf, RelationCode
  <2>2. Mapped(RelationClientErrors, e)
    BY <1>2, <1>3, RelationErrorsMapped DEF ErrorsOf
  <2> QED  BY <2>1, <2>2, Tables, TableCodes DEF RefusalCodes
<1>4. CASE r.proc \in TenantProcedures
  <2>1. CodeOf(r, failure) = For(TenantClientErrors, {e})
    BY <1>1, <1>2, <1>4 DEF CodeOf, TenantCode
  <2>2. Mapped(TenantClientErrors, e)
    BY <1>1, <1>2, <1>4, TenantErrorsMapped DEF ErrorsOf
  <2> QED  BY <2>1, <2>2, Tables, TableCodes DEF RefusalCodes
<1> QED  BY <1>3, <1>4

LEMMA OutcomesCompose ==
    /\ \A E : NoError \in Outcomes(E)
    /\ \A E, e : e \in E => {e} \in Outcomes(E)
    /\ \A E, c, e : e \in E => FailIf(c, e) \in Outcomes(E)
    /\ \A E, a, b : a \in Outcomes(E) /\ b \in Outcomes(E) => a ++ b \in Outcomes(E)
  BY DEF Outcomes, FailIf, ++

LEMMA CommonChecks ==
    ASSUME NEW E, CommonErrors \subseteq E, NEW r
    PROVE  /\ ParseDisplayName(r) \in Outcomes(E)
           /\ SubjectGiven(r) \in Outcomes(E)
           /\ TenantGiven(r) \in Outcomes(E)
           /\ EventGiven(r) \in Outcomes(E)
           /\ InTenant(r) \in Outcomes(E)
           /\ \A t : VerifyOwnership(r, t) \in Outcomes(E)
           /\ \A t : Ensure(r, t) \in Outcomes(E)
           /\ \A t : Writable(db, t) \in Outcomes(E)
           /\ \A t : Require(r, t) \in Outcomes(E)
<1> DEFINE O == Outcomes(E)
<1>1. /\ NoError \in O
      /\ \A c, e : e \in CommonErrors => FailIf(c, e) \in O
      /\ \A a, b : a \in O /\ b \in O => a ++ b \in O
  BY OutcomesCompose
<1> HIDE DEF O
<1>2. ParseDisplayName(r) \in O
  BY <1>1 DEF ParseDisplayName, CommonErrors
<1>3. SubjectGiven(r) \in O
  BY <1>1 DEF SubjectGiven, CommonErrors
<1>4. TenantGiven(r) \in O /\ EventGiven(r) \in O
  BY <1>1 DEF TenantGiven, EventGiven, CommonErrors
<1>5. \A t : VerifyOwnership(r, t) \in O
  BY <1>1 DEF VerifyOwnership, CommonErrors
<1>6. \A t : Ensure(r, t) \in O
  BY <1>1 DEF Ensure, CommonErrors
<1>7. InTenant(r) \in O
  BY <1>1, <1>4, <1>6 DEF InTenant
<1>8. \A t : Writable(db, t) \in O
  BY <1>1 DEF Writable, CommonErrors
<1>9. \A t : Require(r, t) \in O
  BY <1>1, <1>3 DEF Require, CommonErrors
<1> QED  BY <1>2, <1>3, <1>4, <1>5, <1>6, <1>7, <1>8, <1>9 DEF O

LEMMA RelationReports ==
    ASSUME NEW r, r.proc \in RelationProcedures
    PROVE  RelationChecks(r) \in Outcomes(RelationErrors)
<1> DEFINE O == Outcomes(RelationErrors)
<1>1. /\ NoError \in O
      /\ \A c, e : e \in RelationErrors => FailIf(c, e) \in O
      /\ \A a, b : a \in O /\ b \in O => a ++ b \in O
      /\ \A e : e \in RelationErrors => {e} \in O
  BY OutcomesCompose
<1>2. /\ ParseDisplayName(r) \in O /\ SubjectGiven(r) \in O /\ TenantGiven(r) \in O
      /\ EventGiven(r) \in O /\ InTenant(r) \in O
  <2>1. CommonErrors \subseteq RelationErrors
    BY DEF RelationErrors
  <2> QED  BY <2>1, CommonChecks
<1> HIDE DEF O
<1>3. UserGiven(r) \in O
  BY <1>1 DEF UserGiven, RelationErrors
<1>4. Grantable(r) \in O
  BY <1>1 DEF Grantable, RelationErrors
<1>5. Invitable(r) \in O
  BY <1>1 DEF Invitable, RelationErrors
<1>6. CASE r.proc = "AddTenantMember"
  <2>1. RelationChecks(r) = UserGiven(r) ++ Grantable(r) ++ ParseDisplayName(r) ++ InTenant(r)
    BY <1>6 DEF RelationChecks
  <2> QED  BY <1>1, <1>2, <1>3, <1>4, <2>1 DEF O
<1>7. CASE r.proc = "ChangeTenantRole"
  <2>1. RelationChecks(r) = UserGiven(r) ++ Grantable(r) ++ InTenant(r)
    BY <1>7 DEF RelationChecks
  <2> QED  BY <1>1, <1>2, <1>3, <1>4, <2>1 DEF O
<1>8. CASE r.proc = "GrantEventRole"
  <2>1. RelationChecks(r) = UserGiven(r) ++ Grantable(r) ++ EventGiven(r)
    BY <1>8 DEF RelationChecks
  <2> QED  BY <1>1, <1>2, <1>3, <1>4, <2>1 DEF O
<1>9. CASE r.proc = "RevokeRole"
  <2> DEFINE scope == CASE r.tenant # Blank /\ r.event # Blank -> {"ErrScopeAmbiguous"}
                        [] r.tenant # Blank /\ r.event = Blank -> InTenant(r)
                        [] r.tenant = Blank /\ r.event # Blank -> NoError
                        [] OTHER -> {"ErrScopeRequired"}
  <2>1. RelationChecks(r) = UserGiven(r) ++ scope
    BY <1>9 DEF RelationChecks
  <2>2. {"ErrScopeAmbiguous"} \in O /\ {"ErrScopeRequired"} \in O
    BY <1>1 DEF RelationErrors
  <2>3. scope \in O
    BY <1>1, <1>2, <2>2
  <2> HIDE DEF scope
  <2> QED  BY <1>1, <1>3, <2>1, <2>3 DEF O
<1>10. CASE r.proc = "ListMemberships"
  <2> DEFINE missing == FailIf(TenantPublicIDFromContext(r) = Blank, "ErrMissing")
  <2>1. RelationChecks(r) \in {{"ErrFilterAmbiguous"}, InTenant(r), missing, {"ErrFilterRequired"}}
    BY <1>10 DEF RelationChecks
  <2>2. {"ErrFilterAmbiguous"} \in O /\ {"ErrFilterRequired"} \in O /\ missing \in O
    BY <1>1 DEF RelationErrors, CommonErrors
  <2> HIDE DEF missing
  <2> QED  BY <1>2, <2>1, <2>2 DEF O
<1>11. CASE r.proc = "CreateTenantInvitation"
  <2>1. RelationChecks(r) = Invitable(r) ++ ParseDisplayName(r) ++ InTenant(r)
    BY <1>11 DEF RelationChecks
  <2> QED  BY <1>1, <1>2, <1>5, <2>1 DEF O
<1>12. CASE r.proc = "ListTenantInvitations"
  BY <1>2, <1>12 DEF RelationChecks, O
<1>13. CASE r.proc = "RevokeTenantInvitation"
  <2> DEFINE given == FailIf(r.secret = Blank, "ErrInvitationIDRequired")
  <2>1. RelationChecks(r) = given ++ InTenant(r)
    BY <1>13 DEF RelationChecks
  <2>2. given \in O
    BY <1>1 DEF RelationErrors
  <2> HIDE DEF given
  <2> QED  BY <1>1, <1>2, <2>1, <2>2 DEF O
<1>14. CASE r.proc = "AcceptTenantInvitation"
  <2> DEFINE given == FailIf(r.secret = Blank, "ErrInvitationTokenRequired")
  <2>1. RelationChecks(r) = TenantGiven(r) ++ given ++ SubjectGiven(r)
    BY <1>14 DEF RelationChecks
  <2>2. given \in O
    BY <1>1 DEF RelationErrors
  <2> HIDE DEF given
  <2> QED  BY <1>1, <1>2, <2>1, <2>2 DEF O
<1> QED  BY <1>6, <1>7, <1>8, <1>9, <1>10, <1>11, <1>12, <1>13, <1>14 DEF RelationProcedures

LEMMA TenantReports ==
    ASSUME NEW r, r.proc \in TenantProcedures
    PROVE  TenantChecks(r) \in Outcomes(TenantErrors)
<1> DEFINE O == Outcomes(TenantErrors)
<1>1. \A a, b : a \in O /\ b \in O => a ++ b \in O
  BY OutcomesCompose
<1>2. \A c : /\ FailIf(c, "ErrTenantNameRequired") \in O
             /\ FailIf(c, "ErrTenantContractPlanRequired") \in O
             /\ FailIf(c, "ErrOwnershipClaimTokenRequired") \in O
             /\ FailIf(c, "ErrInvalidSubdomain") \in O
             /\ FailIf(c, "ErrSubdomainRequired") \in O
             /\ FailIf(c, "ErrEventNameRequired") \in O
             /\ FailIf(c, "ErrEventStatusRequired") \in O
  BY OutcomesCompose DEF TenantErrors
<1>3. /\ ParseDisplayName(r) \in O /\ SubjectGiven(r) \in O /\ TenantGiven(r) \in O
      /\ EventGiven(r) \in O /\ InTenant(r) \in O
  <2>1. CommonErrors \subseteq TenantErrors
    BY DEF TenantErrors
  <2> QED  BY <2>1, CommonChecks
<1> HIDE DEF O
<1>4. CASE r.proc = "StartTenantRegistration"
  BY <1>1, <1>2, <1>4 DEF TenantChecks, O
<1>5. CASE r.proc = "ClaimTenantOwnership"
  <2>1. TenantChecks(r) = TenantGiven(r) ++ FailIf(r.secret = Blank, "ErrOwnershipClaimTokenRequired")
                            ++ FailIf(r.subdomain = "invalid", "ErrInvalidSubdomain")
                            ++ ParseDisplayName(r) ++ SubjectGiven(r)
    BY <1>5 DEF TenantChecks
  <2> QED  BY <1>1, <1>2, <1>3, <2>1 DEF O
<1>6. CASE r.proc = "ResolveTenantSubdomain"
  BY <1>1, <1>2, <1>6 DEF TenantChecks, O
<1>7. CASE r.proc = "ChangeTenantContract"
  BY <1>1, <1>2, <1>3, <1>7 DEF TenantChecks, O
<1>8. CASE r.proc \in {"ArchiveTenant", "ListEvents"}
  BY <1>3, <1>8 DEF TenantChecks, O
<1>9. CASE r.proc = "CreateEvent"
  BY <1>1, <1>2, <1>3, <1>9 DEF TenantChecks, O
<1>10. CASE r.proc = "TransitionEventStatus"
  BY <1>1, <1>2, <1>3, <1>10 DEF TenantChecks, O
<1>11. CASE r.proc = "GetEvent"
  BY <1>3, <1>11 DEF TenantChecks, O
<1> QED  BY <1>4, <1>5, <1>6, <1>7, <1>8, <1>9, <1>10, <1>11 DEF TenantProcedures

\* What arrives is refused with a code that says why, or let in.
LEMMA ArriveOutcome ==
    ASSUME Arrive
    PROVE  \/ \E code \in RefusalCodes : Refuse(code)
           \/ \E r : Serve(r, NoError) /\ Admitted(r)
<1> DEFINE Goal == \/ \E code \in RefusalCodes : Refuse(code)
                   \/ \E r : Serve(r, NoError) /\ Admitted(r)
<1>1. \A policy, token : Admit(policy, token) # "ok" => Admit(policy, token) \in RefusalCodes
  BY DEF Admit, RefusalCodes, Codes
<1>2. {"unavailable", "invalid_argument"} \subseteq RefusalCodes
  BY DEF RefusalCodes, Codes
<1>3. ASSUME NEW r, NEW failure, Serve(r, failure), failure = NoError => Admitted(r),
             failure # NoError => CodeOf(r, failure) \in RefusalCodes
      PROVE  Goal
  <2>1. CASE failure = NoError
    BY <1>3, <2>1
  <2>2. CASE failure # NoError
    BY <1>3, <2>2 DEF Serve
  <2> QED  BY <2>1, <2>2
<1> HIDE DEF Goal
<1>4. ASSUME NEW token \in Tokens, NEW p \in RelationProcedures, ReceiveRelation(p, token)
      PROVE  Goal
  <2>1. CASE Admit(RelationAdminServicePolicies[p], token) # "ok"
    BY <1>1, <1>4, <2>1 DEF ReceiveRelation, Goal
  <2>2. CASE Admit(RelationAdminServicePolicies[p], token) = "ok"
    <3>1. PICK message \in RelationMessages(p) :
             Serve(InContext(RelationInput(p, token, message)),
                   RelationChecks(RelationInput(p, token, message)))
      BY <1>4, <2>2 DEF ReceiveRelation
    <3> DEFINE r == RelationInput(p, token, message)
    <3>2. r.proc = p /\ r.token = token
      BY RelationInputFields
    <3>3. FieldsFit(r) /\ TokenFits(p, token)
      BY <2>2, RelationFieldsFit, RelationTokenFits
    <3>4. Serve(InContext(r), RelationChecks(r))
      BY <3>1
    <3> HIDE DEF r
    <3>5. RelationChecks(r) = NoError => Admitted(InContext(r))
      BY <3>2, <3>3, RelationAdmitted
    <3>6. InContext(r).proc = p /\ InContext(r).http = FALSE
      BY <3>2, <3>3 DEF InContext, FieldsFit, Fields
    <3>7. RelationChecks(r) \in Outcomes(ErrorsOf(InContext(r)))
      BY <3>2, <3>6, RelationReports DEF ErrorsOf
    <3>8. RelationChecks(r) # NoError => CodeOf(InContext(r), RelationChecks(r)) \in RefusalCodes
      BY <3>6, <3>7, RefusalMapped
    <3> QED  BY <1>3, <3>4, <3>5, <3>8
  <2> QED  BY <2>1, <2>2
<1>5. ASSUME NEW token \in Tokens, NEW p \in TenantProcedures, ReceiveTenant(p, token)
      PROVE  Goal
  <2>1. CASE Admit(TenantServicePolicies[p], token) # "ok"
    BY <1>1, <1>5, <2>1 DEF ReceiveTenant, Goal
  <2>2. CASE Admit(TenantServicePolicies[p], token) = "ok"
    <3> DEFINE claims == Claims(TenantServicePolicies[p], token)
    <3>1. PICK message \in TenantMessages(p) :
             Serve(TenantInput(p, claims, message), TenantChecks(TenantInput(p, claims, message)))
      BY <1>5, <2>2 DEF ReceiveTenant
    <3> DEFINE r == TenantInput(p, claims, message)
    <3>2. r.proc = p /\ r.token = claims
      BY TenantInputFields
    <3>3. FieldsFit(r) /\ TokenFits(p, claims)
      BY <2>2, TenantFieldsFit, TenantTokenFits
    <3>4. Serve(r, TenantChecks(r))
      BY <3>1
    <3> HIDE DEF r
    <3>5. TenantChecks(r) = NoError => Admitted(r)
      BY <3>2, <3>3, TenantAdmitted
    <3>6. r.proc \notin RelationProcedures
      BY <3>2 DEF RelationProcedures, TenantProcedures
    <3>7. TenantChecks(r) \in Outcomes(ErrorsOf(r))
      BY <3>2, <3>6, TenantReports DEF ErrorsOf
    <3>8. TenantChecks(r) # NoError => CodeOf(r, TenantChecks(r)) \in RefusalCodes
      BY <3>2, <3>3, <3>7, RefusalMapped DEF FieldsFit
    <3> QED  BY <1>3, <3>4, <3>5, <3>8
  <2> QED  BY <2>1, <2>2
<1>6. ASSUME NEW token \in Tokens, ReceiveUnverifiable(token) PROVE Goal
  BY <1>2, <1>6 DEF ReceiveUnverifiable, Goal
<1>7. ASSUME NEW t \in Named, NEW u \in Asked, ReceiveHttp(t, u) PROVE Goal
  <2>1. CASE Blank \in {t, u}
    <3>1. Refuse("invalid_argument")
      BY <1>7, <2>1, Zenon DEF ReceiveHttp
    <3> QED  BY <1>2, <3>1 DEF Goal
  <2>2. CASE Blank \notin {t, u}
    <3>1. Serve(InContext(HttpInput(t, u)), RelationChecks(HttpInput(t, u)))
      BY <1>7, <2>2 DEF ReceiveHttp, HttpInput
    <3>2. t \in Tenants /\ u \in Users
      BY <2>2 DEF Named, Asked
    <3>3. Admitted(InContext(HttpInput(t, u))) /\ RelationChecks(HttpInput(t, u)) = NoError
      BY <3>2, HttpAdmitted
    <3> QED  BY <1>3, <3>1, <3>3
  <2> QED  BY <2>1, <2>2
<1> QED  BY <1>4, <1>5, <1>6, <1>7, Zenon DEF Arrive, Goal

LEMMA GateReports ==
    ASSUME NEW r, r.proc \in RelationProcedures \cup TenantProcedures
    PROVE  /\ r.proc \in EventProcedures => EventGate(r) \in Outcomes(ErrorsOf(r))
           /\ TenantGate(r) \in Outcomes(ErrorsOf(r))
<1> DEFINE E == ErrorsOf(r)
           O == Outcomes(E)
<1>1. /\ NoError \in O
      /\ \A a, b : a \in O /\ b \in O => a ++ b \in O
      /\ \A c, e : e \in E => FailIf(c, e) \in O
  BY OutcomesCompose
<1>2. CommonErrors \subseteq E
  BY DEF ErrorsOf, RelationErrors, TenantErrors
<1>3. /\ SubjectGiven(r) \in O
      /\ \A t : VerifyOwnership(r, t) \in O
      /\ \A t : Ensure(r, t) \in O
      /\ \A t : Writable(db, t) \in O
  BY <1>2, CommonChecks
<1> HIDE DEF O
<1>4. \A c : /\ FailIf(c, "tenantrepository.ErrEventNotFound") \in O
             /\ FailIf(c, "tenantrepository.ErrTenantNotFound") \in O
             /\ FailIf(c, "ErrTenantPendingOwner") \in O
  BY <1>1, <1>2 DEF CommonErrors
<1>5. ASSUME r.proc \in EventProcedures PROVE EventGate(r) \in O
  <2> DEFINE status == CASE r.proc \in {"GrantEventRole", "RevokeRole"} ->
                               FailIf(db.event[r.event] = "archived", "ErrEventArchived")
                         [] r.proc = "TransitionEventStatus" ->
                               FailIf(~CanTransition(db.event[r.event], r.to),
                                      "ErrInvalidEventStatusTransition")
                         [] OTHER -> NoError
  <2>1. EventGate(r) = FailIf(db.event[r.event] = "absent", "tenantrepository.ErrEventNotFound")
                         ++ VerifyOwnership(r, r.event) ++ Ensure(r, r.event) ++ status
    BY DEF EventGate
  <2>2. CASE r.proc \in {"GrantEventRole", "RevokeRole"}
    <3>1. "ErrEventArchived" \in E
      BY <2>2 DEF ErrorsOf, RelationErrors, RelationProcedures
    <3>2. status = FailIf(db.event[r.event] = "archived", "ErrEventArchived")
      BY <2>2
    <3>3. status \in O
      BY <1>1, <3>1, <3>2
    <3> HIDE DEF status
    <3> QED  BY <1>1, <1>3, <1>4, <2>1, <3>3
  <2>3. CASE r.proc = "TransitionEventStatus"
    <3>1. "ErrInvalidEventStatusTransition" \in E
      BY <2>3 DEF ErrorsOf, TenantErrors, RelationProcedures
    <3>2. status = FailIf(~CanTransition(db.event[r.event], r.to), "ErrInvalidEventStatusTransition")
      BY <2>3
    <3>3. status \in O
      BY <1>1, <3>1, <3>2
    <3> HIDE DEF status
    <3> QED  BY <1>1, <1>3, <1>4, <2>1, <3>3
  <2>4. CASE r.proc \notin {"GrantEventRole", "RevokeRole", "TransitionEventStatus"}
    <3>1. status = NoError
      BY <2>4
    <3> HIDE DEF status
    <3> QED  BY <1>1, <1>3, <1>4, <2>1, <3>1
  <2> QED  BY <2>2, <2>3, <2>4
<1>6. TenantGate(r) \in O
  <2> DEFINE gate == CASE r.proc \in {"AcceptTenantInvitation", "ListMemberships",
                                      "ListTenantInvitations"} -> NoError
                       [] r.proc = "ListEvents"  ->
                             FailIf(db.tenant[r.tenant] = "pending", "ErrTenantPendingOwner")
                       [] r.proc = "CreateEvent" -> Writable(db, r.tenant) ++ SubjectGiven(r)
                       [] OTHER -> Writable(db, r.tenant)
  <2>1. TenantGate(r) = FailIf(db.tenant[r.tenant] = "absent", "tenantrepository.ErrTenantNotFound")
                          ++ VerifyOwnership(r, r.tenant) ++ gate
    BY DEF TenantGate
  <2>2. gate \in {NoError, FailIf(db.tenant[r.tenant] = "pending", "ErrTenantPendingOwner"),
                  Writable(db, r.tenant) ++ SubjectGiven(r), Writable(db, r.tenant)}
    OBVIOUS
  <2>3. gate \in O
    <3> HIDE DEF gate
    <3> QED  BY <1>1, <1>3, <1>4, <2>2
  <2> HIDE DEF gate
  <2> QED  BY <1>1, <1>3, <1>4, <2>1, <2>3
<1> QED  BY <1>5, <1>6 DEF O

LEMMA WriteReports ==
    ASSUME RequestInv, MemberInv, stage = "write"
    PROVE  WriteChecks(req) \in Outcomes(ErrorsOf(req))
<1> DEFINE E == ErrorsOf(req)
           O == Outcomes(E)
           t == Target(req)
<1>1. /\ NoError \in O
      /\ \A a, b : a \in O /\ b \in O => a ++ b \in O
      /\ \A c, e : e \in E => FailIf(c, e) \in O
  BY OutcomesCompose
<1>2. CommonErrors \subseteq E
  BY DEF ErrorsOf, RelationErrors, TenantErrors
<1>3. VerifyOwnership(req, t) \in O /\ Writable(db, t) \in O /\ Require(req, t) \in O
  BY <1>2, CommonChecks
<1>4. \A c : /\ FailIf(c, "tenantrepository.ErrTenantNotFound") \in O
             /\ FailIf(c, "ErrTenantArchived") \in O
             /\ FailIf(c, "ErrTenantPendingOwner") \in O
  BY <1>1, <1>2 DEF CommonErrors
<1>5. req.proc \in RelationProcedures =>
         \A c : /\ FailIf(c, "ErrLastOwner") \in O
                /\ FailIf(c, "ErrMembershipNotFound") \in O
                /\ FailIf(c, "ErrMembershipAlreadyExists") \in O
                /\ FailIf(c, "ErrTenantMembershipRequired") \in O
                /\ FailIf(c, "ErrEventRoleNotFound") \in O
                /\ FailIf(c, "ErrInvitationNotFound") \in O
                /\ FailIf(c, "ErrInvitationNotPending") \in O
                /\ FailIf(c, "ErrInvitationRejected") \in O
  BY <1>1 DEF ErrorsOf, RelationErrors
<1>6. req.proc \notin RelationProcedures =>
         \A c : /\ FailIf(c, "ErrOwnershipClaimRejected") \in O
                /\ FailIf(c, "ErrTenantSubdomainExists") \in O
  BY <1>1 DEF ErrorsOf, TenantErrors
<1>7. Admitted(req) /\ Placed
  BY DEF RequestInv, Underway
<1> HIDE DEF O, t, E
<1>8. CASE req.proc = "StartTenantRegistration"
  BY <1>1, <1>8 DEF WriteChecks, O, E
<1>9. CASE req.proc = "ClaimTenantOwnership"
  <2>1. WriteChecks(req) =
          FailIf(db.tenant[t] = "absent", "tenantrepository.ErrTenantNotFound")
            ++ VerifyOwnership(req, t)
            ++ FailIf(db.tenant[t] # "pending" \/ req.secret # "right", "ErrOwnershipClaimRejected")
            ++ FailIf(req.subdomain \in Tenants /\ db.tenant[req.subdomain] \in {"owned", "archived"},
                      "ErrTenantSubdomainExists")
    BY <1>9 DEF WriteChecks, t
  <2> QED  BY <1>1, <1>3, <1>4, <1>6, <1>9, <2>1 DEF RelationProcedures, O, E
<1>10. CASE req.proc \in {"ChangeTenantContract", "ArchiveTenant"}
  <2>1. WriteChecks(req) = FailIf(db.tenant[t] = "absent", "tenantrepository.ErrTenantNotFound")
                             ++ VerifyOwnership(req, t) ++ Writable(db, t) ++ Require(req, t)
    BY <1>10 DEF WriteChecks, t
  <2> QED  BY <1>1, <1>3, <1>4, <2>1 DEF O, E
<1>11. CASE req.proc = "CreateEvent"
  <2>1. WriteChecks(req) = FailIf(db.tenant[t] = "archived", "ErrTenantArchived")
                             ++ FailIf(RoleOf(req, t) = NoRole, "ErrTenantMembershipRequired")
    BY <1>11 DEF WriteChecks, t
  <2>2. RoleOf(req, req.tenant) # NoRole
    BY <1>11 DEF MemberInv, Underway
  <2>3. t = req.tenant
    BY <1>11, TargetIsContext DEF Underway, Unscoped, t
  <2>4. FailIf(RoleOf(req, t) = NoRole, "ErrTenantMembershipRequired") = NoError
    BY <2>2, <2>3 DEF FailIf
  <2> QED  BY <1>1, <1>4, <2>1, <2>4 DEF O, E
<1>12. CASE req.proc = "TransitionEventStatus"
  BY <1>4, <1>12 DEF WriteChecks, O, E, t
<1>13. CASE req.proc \in RelationProcedures
  <2>1. MemberMissing(t, req.user) \in O /\ MemberMissing(t, SubjectFromContext(req)) \in O
    BY <1>5, <1>13 DEF MemberMissing
  <2>2. MemberFound(t, req.user) \in O
    BY <1>5, <1>13 DEF MemberFound
  <2>3. KeepAnotherOwner(t, req.user) \in O
    BY <1>5, <1>13 DEF KeepAnotherOwner
  <2>4. CASE req.proc = "AddTenantMember"
    BY <2>1, <2>4 DEF WriteChecks, O, E, t
  <2>5. CASE req.proc = "ChangeTenantRole"
    <3> DEFINE keep == IF req.role # "owner" THEN KeepAnotherOwner(t, req.user) ELSE NoError
    <3>1. WriteChecks(req) = Require(req, t) ++ keep ++ MemberFound(t, req.user)
      BY <2>5 DEF WriteChecks, t
    <3>2. keep \in O
      BY <1>1, <2>3
    <3> HIDE DEF keep
    <3> QED  BY <1>1, <1>3, <2>2, <3>1, <3>2 DEF O, E
  <2>6. CASE req.proc = "GrantEventRole"
    <3>1. WriteChecks(req) = Require(req, t)
             ++ FailIf(db.role[t][req.user] = NoRole, "ErrTenantMembershipRequired")
      BY <2>6 DEF WriteChecks, t
    <3> QED  BY <1>1, <1>3, <1>5, <1>13, <3>1 DEF O, E
  <2>7. CASE req.proc = "RevokeRole" /\ req.event # Blank
    <3>1. WriteChecks(req) = Require(req, t)
             ++ FailIf(db.eventRole[t][req.user] = NoRole, "ErrEventRoleNotFound")
      BY <2>7 DEF WriteChecks, t
    <3> QED  BY <1>1, <1>3, <1>5, <1>13, <3>1 DEF O, E
  <2>8. CASE req.proc = "RevokeRole" /\ req.event = Blank
    <3>1. WriteChecks(req) =
             Require(req, t) ++ KeepAnotherOwner(t, req.user) ++ MemberFound(t, req.user)
      BY <2>8 DEF WriteChecks, t
    <3> QED  BY <1>1, <1>3, <2>2, <2>3, <3>1 DEF O, E
  <2>9. CASE req.proc = "CreateTenantInvitation"
    BY <1>3, <2>9 DEF WriteChecks, O, E, t
  <2>10. CASE req.proc = "RevokeTenantInvitation"
    <3>1. WriteChecks(req) =
             FailIf(req.secret = "wrong" \/ db.invitation[t] = "none", "ErrInvitationNotFound")
               ++ FailIf(db.invitation[t] = "closed", "ErrInvitationNotPending")
      BY <2>10 DEF WriteChecks, t
    <3> QED  BY <1>1, <1>5, <1>13, <3>1 DEF O, E
  <2>11. CASE req.proc = "AcceptTenantInvitation"
    <3>1. WriteChecks(req) =
             FailIf(req.secret = "wrong" \/ db.invitation[t] # "open", "ErrInvitationRejected")
               ++ FailIf(seen = "pending", "ErrTenantPendingOwner")
               ++ FailIf(seen = "archived", "ErrTenantArchived")
               ++ MemberMissing(t, SubjectFromContext(req))
      BY <2>11 DEF WriteChecks, t
    <3> QED  BY <1>1, <1>4, <1>5, <1>13, <2>1, <3>1 DEF O, E
  <2> QED  BY <1>7, <1>13, <2>4, <2>5, <2>6, <2>7, <2>8, <2>9, <2>10, <2>11
           DEF Placed, Reads, RelationProcedures
<1> QED  BY <1>7, <1>8, <1>9, <1>10, <1>11, <1>12, <1>13 DEF Admitted, Placed, Reads, TenantProcedures

-----------------------------------------------------------------------------
(* Codes and types *)

CodeInv == answer.code \in Codes \cup {"none"} /\ InternalMeansFailure

LEMMA AnyCode ==
    ASSUME NEW r, NEW err, r.proc \in RelationProcedures \cup TenantProcedures, r.http \in BOOLEAN
    PROVE  CodeOf(r, err) \in Codes \cup {"none"}
<1>1. RelationProcedures \cap TenantProcedures = {}
  BY DEF RelationProcedures, TenantProcedures
<1>2. CodeOf(r, err) \in {WriteError(err), For(RelationClientErrors, err), For(TenantClientErrors, err)}
  BY <1>1 DEF CodeOf, RelationCode, TenantCode
<1>3. WriteError(err) \in Codes \cup {"none"}
  BY DEF WriteError, Codes
<1> QED  BY <1>2, <1>3, Tables, TableCodes

LEMMA CodeStep ==
    ASSUME RequestInv, FateInv, MemberInv, CodeInv, [Next]_vars
    PROVE  CodeInv'
<1>1. ASSUME NEW code \in Codes \ {"internal"}, NEW body, NEW r, Respond(code, body, r)
      PROVE  CodeInv'
  BY <1>1 DEF Respond, CodeInv, InternalMeansFailure
<1>2. ASSUME NEW code \in Codes \cup {"none"}, NEW body, NEW r, Respond(code, body, r), fate'.failed
      PROVE  CodeInv'
  BY <1>2 DEF Respond, CodeInv, InternalMeansFailure
<1>3. ASSUME answer' = answer, fate'.failed = fate.failed
      PROVE  CodeInv'
  BY <1>3 DEF CodeInv, InternalMeansFailure
<1>4. ASSUME NEW body, NEW r, Answer(r, body) PROVE CodeInv'
  BY <1>1, <1>4 DEF Answer, Codes
<1>5. ASSUME NEW failure \in Outcomes(ErrorsOf(req)), failure # NoError, Reject(req, failure),
             Admitted(req), req.http = FALSE
      PROVE  CodeInv'
  <2>1. CodeOf(req, failure) \in Codes \ {"internal"}
    BY <1>5, RefusalMapped DEF Admitted, RefusalCodes
  <2> QED  BY <1>1, <1>5, <2>1 DEF Reject
<1>6. Underway => Admitted(req) /\ Placed
  BY DEF RequestInv
<1>7. CASE Arrive
  <2>1. ASSUME NEW code \in RefusalCodes, Refuse(code) PROVE CodeInv'
    BY <1>1, <2>1 DEF RefusalCodes, Refuse
  <2>2. ASSUME NEW r, Serve(r, NoError) PROVE CodeInv'
    BY <1>3, <2>2 DEF Serve
  <2> QED  BY <1>7, <2>1, <2>2, ArriveOutcome
<1>8. CASE FindEvent
  <2>1. Admitted(req) /\ Placed /\ stage = "event" /\ req.event # Blank /\ fate' = fate
    BY <1>6, <1>8 DEF FindEvent, Underway, Placed
  <2>2. req.proc \in EventProcedures /\ req.http = FALSE
    BY <2>1 DEF Admitted, EventProcedures
  <2>3. CASE EventGate(req) # NoError
    <3>1. EventGate(req) \in Outcomes(ErrorsOf(req))
      BY <2>1, <2>2, GateReports DEF Admitted
    <3> QED  BY <1>5, <1>8, <2>1, <2>2, <2>3, <3>1 DEF FindEvent
  <2>4. CASE EventGate(req) = NoError
    BY <1>3, <1>4, <1>8, <2>1, <2>4 DEF FindEvent, Goto
  <2> QED  BY <2>3, <2>4
<1>9. CASE FindTenant
  <2>1. Admitted(req) /\ Placed /\ stage = "tenant" /\ fate' = fate
    BY <1>6, <1>9 DEF FindTenant, Underway
  <2>2. CASE TenantGate(req) = NoError
    BY <1>3, <1>9, <2>1, <2>2 DEF FindTenant, Goto
  <2>3. CASE TenantGate(req) # NoError /\ req.http = FALSE
    <3>1. TenantGate(req) \in Outcomes(ErrorsOf(req))
      BY <2>1, GateReports DEF Admitted
    <3> QED  BY <1>5, <1>9, <2>1, <2>3, <3>1 DEF FindTenant
  <2>4. CASE TenantGate(req) # NoError /\ req.http = TRUE
    <3>1. req.proc = "ListMemberships" /\ req.event = Blank
      BY <2>1, <2>4 DEF Admitted, EventProcedures
    <3>2. TenantPublicIDFromContext(req) = req.tenant
      BY <2>1, <3>1 DEF Admitted, Unscoped
    <3>3. VerifyOwnership(req, req.tenant) = NoError
      BY <3>2 DEF VerifyOwnership, FailIf
    <3> DEFINE absent == FailIf(db.tenant[req.tenant] = "absent", "tenantrepository.ErrTenantNotFound")
    <3>4. TenantGate(req) = absent ++ NoError ++ NoError
      BY <3>1, <3>3 DEF TenantGate
    <3>5. TenantGate(req) = {"tenantrepository.ErrTenantNotFound"}
      BY <2>4, <3>4 DEF FailIf, ++
    <3>6. CodeOf(req, TenantGate(req)) = WriteError({"tenantrepository.ErrTenantNotFound"})
      BY <2>4, <3>5 DEF CodeOf
    <3>7. WriteError({"tenantrepository.ErrTenantNotFound"}) = "not_found"
      BY DEF WriteError, Canceled, DeadlineExceeded
    <3>8. Reject(req, TenantGate(req))
      BY <1>9, <2>4 DEF FindTenant
    <3> QED  BY <1>1, <3>6, <3>7, <3>8 DEF Reject, Codes
  <2> QED  BY <2>1, <2>2, <2>3, <2>4 DEF Admitted
<1>10. CASE Read
  <2>1. Admitted(req) /\ Placed /\ stage = "read"
    BY <1>6, <1>10 DEF Read, Underway
  <2>2. CASE req.proc = "ResolveTenantSubdomain" /\ Found(req) = {}
    <3>1. {"tenantrepository.ErrTenantNotFound"} \in Outcomes(ErrorsOf(req))
      BY OutcomesCompose DEF ErrorsOf, RelationErrors, TenantErrors, CommonErrors
    <3>2. {"tenantrepository.ErrTenantNotFound"} # NoError
      BY DEF NoError
    <3>3. req.http = FALSE
      BY <2>1, <2>2 DEF Admitted
    <3> QED  BY <1>5, <1>10, <2>1, <2>2, <3>1, <3>2, <3>3 DEF Read
  <2>3. CASE ~(req.proc = "ResolveTenantSubdomain" /\ Found(req) = {})
    BY <1>4, <1>10, <2>3 DEF Read
  <2> QED  BY <2>2, <2>3
<1>11. CASE ReadMemberships
  <2> DEFINE rows == {u \in Users : /\ req.user \in {u, Blank}
                                    /\ db.role[req.tenant][u] # NoRole}
  <2>1. Admitted(req) /\ Placed /\ stage = "memberships" /\ fate' = fate
    BY <1>6, <1>11 DEF ReadMemberships, Underway
  <2>2. CASE rows # {}
    BY <1>3, <1>11, <2>1, <2>2 DEF ReadMemberships, Goto
  <2>3. CASE rows = {} /\ req.proc = "ListMemberships"
    BY <1>4, <1>11, <2>3 DEF ReadMemberships
  <2>4. CASE rows = {} /\ req.proc = "AddTenantMember"
    <3>1. req.http = FALSE
      BY <2>1, <2>4 DEF Admitted
    <3>2. CodeOf(req, {"ErrMembershipNotFound"}) = "not_found"
      BY <2>4, <3>1, MembershipNotFoundCode DEF CodeOf, RelationProcedures, TenantProcedures
    <3>3. Reject(req, {"ErrMembershipNotFound"})
      BY <1>11, <2>4 DEF ReadMemberships
    <3> QED  BY <1>1, <3>2, <3>3 DEF Reject, Codes
  <2> QED  BY <2>1, <2>2, <2>3, <2>4 DEF Placed
<1>12. CASE ReadEventRoles
  <2>1. Placed /\ stage = "eventRoles"
    BY <1>6, <1>12 DEF ReadEventRoles, Underway
  <2>2. TenantPublicIDFromContext(req) = req.tenant
    BY <2>1, TargetIsContext DEF Placed, Underway, Unscoped
  <2>3. VerifyOwnership(req, req.tenant) = NoError
    BY <2>2 DEF VerifyOwnership, FailIf
  <2> QED  BY <1>4, <1>12, <2>3 DEF ReadEventRoles
<1>13. CASE CurrentRole
  <2>1. Admitted(req) /\ Placed /\ stage = "role" /\ req.proc = "CreateEvent" /\ fate' = fate
    BY <1>6, <1>13 DEF CurrentRole, Underway, Placed
  <2>2. CASE RoleOf(req, req.tenant) = NoRole
    <3>1. {"ErrCreatorNotMember"} \in Outcomes(ErrorsOf(req))
      BY <2>1, OutcomesCompose DEF ErrorsOf, TenantErrors, RelationProcedures
    <3>2. {"ErrCreatorNotMember"} # NoError /\ req.http = FALSE
      BY <2>1 DEF NoError, Admitted
    <3> QED  BY <1>5, <1>13, <2>1, <2>2, <3>1, <3>2 DEF CurrentRole
  <2>3. CASE RoleOf(req, req.tenant) # NoRole
    BY <1>3, <1>13, <2>1, <2>3 DEF CurrentRole, Goto
  <2> QED  BY <2>2, <2>3
<1>14. CASE Write
  <2>1. Admitted(req) /\ Placed /\ stage = "write"
    BY <1>6, <1>14 DEF Write, Underway
  <2>2. CASE WriteChecks(req) # NoError
    <3>1. req.http = FALSE
      BY <2>1 DEF Admitted, Placed, Reads
    <3>2. WriteChecks(req) \in Outcomes(ErrorsOf(req))
      BY <2>1, WriteReports
    <3>3. Reject(req, WriteChecks(req))
      BY <1>14, <2>2 DEF Write
    <3> QED  BY <1>5, <2>1, <2>2, <3>1, <3>2, <3>3
  <2>3. CASE WriteChecks(req) = NoError
    <3>1. fate'.failed = fate.failed
      BY <1>14, <2>3 DEF Write, FateInv
    <3> QED  BY <1>3, <1>4, <1>14, <2>3, <3>1 DEF Write, Goto
  <2> QED  BY <2>2, <2>3
<1>15. CASE FailStatement
  <2>1. Admitted(req) /\ fate'.failed = TRUE
    BY <1>6, <1>15 DEF FailStatement, Underway, FateInv
  <2>2. PICK err : Reject(req, err)
    BY <1>15 DEF FailStatement
  <2>3. CodeOf(req, err) \in Codes \cup {"none"}
    BY <2>1, AnyCode DEF Admitted
  <2> QED  BY <1>2, <2>1, <2>2, <2>3 DEF Reject
<1>16. CASE LoseCommitAnswer
  <2>1. Admitted(req) /\ fate'.failed = TRUE
    BY <1>6, <1>16 DEF LoseCommitAnswer, Underway
  <2>2. PICK err : Respond(CodeOf(req, err), {}, req)
    BY <1>16 DEF LoseCommitAnswer
  <2>3. CodeOf(req, err) \in Codes \cup {"none"}
    BY <2>1, AnyCode DEF Admitted
  <2> QED  BY <1>2, <2>1, <2>2, <2>3
<1>17. CASE Send
  BY <1>17 DEF Send, NoAnswer, CodeInv, InternalMeansFailure
<1>18. CASE Others
  BY <1>3, <1>18, OthersLeave
<1>19. CASE UNCHANGED vars
  BY <1>3, <1>19 DEF vars
<1> QED  BY <1>7, <1>8, <1>9, <1>10, <1>11, <1>12, <1>13, <1>14, <1>15, <1>16, <1>17, <1>18, <1>19
         DEF Next, Arrive

LEMMA CodesAlways == Spec => [](CodeInv)
<1>1. Init => CodeInv
  BY DEF Init, NoAnswer, CodeInv, InternalMeansFailure
<1>2. RequestInv /\ FateInv /\ MemberInv /\ CodeInv /\ [Next]_vars => CodeInv'
  BY CodeStep
<1> QED  BY <1>1, <1>2, MembersAlways, PTL DEF Spec

\* Only a failure of the database is answered with "internal": each refusal of
\* a check, a gate or a write has a row in the table of its service, whatever
\* other requests do meanwhile, and the HTTP API meets none that it leaves
\* unmapped.
THEOREM InternalAlwaysFailure == Spec => []InternalMeansFailure
<1>1. CodeInv => InternalMeansFailure
  BY DEF CodeInv
<1> QED  BY <1>1, CodesAlways, PTL

\* The fields of a request, what it has locked, and the flag.
FormInv ==
    /\ DOMAIN req = Fields
    /\ locked \subseteq {SubjectFromContext(req)}
    /\ stage \in {"idle", "event", "answered"} => locked = {}
    /\ late \in BOOLEAN

LEMMA OthersLateTyped ==
    ASSUME Others
    PROVE  late' \in BOOLEAN
<1>1. \A d, touched : OthersWrite(d, touched) => late' \in BOOLEAN
  BY DEF OthersWrite, Closed
<1> QED  BY <1>1, Zenon
         DEF Others, OthersRegister, OthersSweep, OthersArchive, OthersClaim, OthersCreateEvent,
             OthersSetRole, OthersSetEventRole, OthersTransition, OthersInvite

LEMMA FormStep ==
    ASSUME RequestInv, FormInv, [Next]_vars
    PROVE  FormInv'
<1>1. ASSUME NEW code, NEW body, NEW r, Respond(code, body, r), DOMAIN r = Fields PROVE FormInv'
  BY <1>1 DEF Respond, FormInv
<1>2. ASSUME NEW err, Reject(req, err) PROVE FormInv'
  BY <1>1, <1>2, EmptyFields DEF Reject, FormInv
<1>3. ASSUME NEW body, Answer(req, body) PROVE FormInv'
  BY <1>1, <1>3 DEF Answer, FormInv
<1>4. ASSUME UNCHANGED <<req, locked, late>>, stage' \notin {"idle", "event", "answered"}
      PROVE  FormInv'
  BY <1>4 DEF FormInv, SubjectFromContext
<1>5. Underway => Admitted(req) /\ Placed
  BY DEF RequestInv
<1>6. CASE Arrive
  <2>1. ASSUME NEW code, Refuse(code) PROVE FormInv'
    BY <1>1, <2>1, EmptyFields DEF Refuse
  <2>2. ASSUME NEW r, Serve(r, NoError), Admitted(r) PROVE FormInv'
    <3>1. req' = r /\ late' = Closed(db, r) /\ locked' = locked
      BY <2>2 DEF Serve
    <3>2. stage = "idle"
      BY <1>6, ArriveServes
    <3>3. late' \in BOOLEAN
      BY <3>1 DEF Closed
    <3> QED  BY <2>2, <3>1, <3>2, <3>3 DEF FormInv, Admitted
  <2> QED  BY <1>6, <2>1, <2>2, ArriveOutcome
<1>7. CASE FindEvent
  <2>1. stage = "event" /\ locked = {}
    BY <1>7 DEF FindEvent, FormInv
  <2>2. CASE EventGate(req) # NoError
    BY <1>2, <1>7, <2>2 DEF FindEvent
  <2>3. CASE EventGate(req) = NoError /\ req.proc = "GetEvent"
    BY <1>3, <1>7, <2>3 DEF FindEvent
  <2>4. CASE EventGate(req) = NoError /\ req.proc # "GetEvent"
    <3>1. /\ req' = req \/ req' = [req EXCEPT !.tenant = req.event]
          /\ locked' = {} /\ late' = late
      BY <1>7, <2>1, <2>4 DEF FindEvent, Goto
    <3>2. DOMAIN req' = Fields
      BY <3>1 DEF FormInv
    <3> QED  BY <3>1, <3>2 DEF FormInv
  <2> QED  BY <2>2, <2>3, <2>4
<1>8. CASE FindTenant
  <2>1. CASE TenantGate(req) # NoError
    BY <1>2, <1>8, <2>1 DEF FindTenant
  <2>2. CASE TenantGate(req) = NoError
    <3>1. UNCHANGED <<req, locked, late>> /\ stage' = AfterTenant(req)
      BY <1>8, <2>2 DEF FindTenant, Goto
    <3>2. AfterTenant(req) \notin {"idle", "event", "answered"}
      BY DEF AfterTenant
    <3> QED  BY <1>4, <3>1, <3>2
  <2> QED  BY <2>1, <2>2
<1>9. CASE Read \/ ReadEventRoles
  BY <1>2, <1>3, <1>9 DEF Read, ReadEventRoles
<1>10. CASE ReadMemberships
  <2>1. Placed /\ stage = "memberships"
    BY <1>5, <1>10 DEF ReadMemberships, Underway
  <2>2. \/ UNCHANGED <<req, locked, late>> /\ stage' = "eventRoles"
        \/ \E err : Reject(req, err)
        \/ \E body : Answer(req, body)
    BY <1>10, <2>1 DEF ReadMemberships, Placed, Goto
  <2> QED  BY <1>2, <1>3, <1>4, <2>2
<1>11. CASE CurrentRole
  <2>1. \/ \E err : Reject(req, err)
        \/ /\ UNCHANGED <<req, late>> /\ stage' = "write"
           /\ locked' = {SubjectFromContext(req)}
    BY <1>11 DEF CurrentRole, Goto
  <2> QED  BY <1>2, <2>1 DEF FormInv, SubjectFromContext
<1>12. CASE Write
  <2>1. \/ UNCHANGED <<req, locked, late>> /\ stage' = "memberships"
        \/ \E err : Reject(req, err)
        \/ \E body : Answer(req, body)
    BY <1>12 DEF Write, Goto
  <2> QED  BY <1>2, <1>3, <1>4, <2>1
<1>13. CASE FailStatement
  BY <1>2, <1>13 DEF FailStatement
<1>14. CASE LoseCommitAnswer
  BY <1>1, <1>14 DEF LoseCommitAnswer, FormInv
<1>15. CASE Send
  BY <1>15, EmptyFields DEF Send, FormInv
<1>16. CASE Others
  BY <1>16, OthersLeave, OthersLateTyped DEF FormInv, SubjectFromContext
<1>17. CASE UNCHANGED vars
  BY <1>17 DEF vars, FormInv, SubjectFromContext
<1> QED  BY <1>6, <1>7, <1>8, <1>9, <1>10, <1>11, <1>12, <1>13, <1>14, <1>15, <1>16, <1>17
         DEF Next, Arrive

\* Rows, stages, codes and histories keep their types, and a transaction locks
\* the row of its caller only, for any tenants and users.
THEOREM TypeCorrect == Spec => []TypeOK
<1>1. Init => FormInv
  BY EmptyFields DEF Init, FormInv
<1>2. RequestInv /\ FormInv /\ [Next]_vars => FormInv'
  BY FormStep
<1>3. RequestInv /\ DataInv /\ FateInv /\ MemberInv /\ CodeInv /\ FormInv => TypeOK
  <2> SUFFICES ASSUME RequestInv, DataInv, FateInv, MemberInv, CodeInv, FormInv PROVE TypeOK
    OBVIOUS
  <2>1. db \in Databases /\ \A t \in Tenants, u \in Users :
           {db.role[t][u], db.eventRole[t][u]} \subseteq GrantableRoles \cup {NoRole}
    <3>1. Held \subseteq RoleOrNone
      BY DEF Held, RoleOrNone, GrantableRoles, Roles
    <3>2. db \in Rows
      BY DEF DataInv
    <3>3. db \in Databases
      BY <3>1, <3>2 DEF Rows, Databases
    <3>4. \A t \in Tenants, u \in Users : db.role[t][u] \in Held /\ db.eventRole[t][u] \in Held
      BY <3>2 DEF Rows
    <3> QED  BY <3>3, <3>4 DEF Held
  <2>2. stage \in Stages
    BY DEF RequestInv, Underway, Placed, Stages
  <2> QED  BY <2>1, <2>2, EmptyFields DEF FateInv, MemberInv, CodeInv, FormInv, TypeOK
<1> QED  BY <1>1, <1>2, <1>3, MembersAlways, CodesAlways, PTL DEF Spec
=============================================================================
