----------------------------- MODULE Invitations -----------------------------
(* CreateTenantInvitation, RevokeTenantInvitation, ListTenantInvitations and
   AcceptTenantInvitation of one owned tenant, statement by statement.

   The other writes of the tenant (members added, removed or demoted, the
   tenant archived) happen around them as single steps, which is what
   MembershipWrites is shown to implement; they respect the locks that the
   invitation transactions hold.  The token of an invitation is named by the
   invitation.                                                                *)
EXTENDS Roles, Naturals, FiniteSets

CONSTANTS
    Users,
    Invites,   \* invitation ids, and the tokens issued for them
    Procs,     \* concurrent requests
    TTL,       \* invitationTTL
    MaxTime,   \* bound on the clock
    NoProc, NoUser

ASSUME InvitationsAssumption ==
    /\ NoProc \notin Procs
    /\ NoUser \notin Users
    /\ TTL \in Nat \ {0}
    /\ MaxTime \in Nat

VARIABLES
    invitations, \* committed rows of tenant_invitations
    role,        \* committed tenant role of each user
    archived,    \* the tenant's archived flag
    advisory,    \* holder of the tenant's advisory lock
    inviteLock,  \* holder of the lock on each invitation row
    clock,       \* s.now()
    pc, req,     \* next statement and request of each process
    admitted     \* history: whom each invitation brought into the tenant

local == <<pc, req>>
vars  == <<invitations, role, archived, advisory, inviteLock, clock, local, admitted>>

\* A row: the two closing columns decide its state (invitationRow.domain).
NoInvite == [exists |-> FALSE, expires |-> 0, acceptedBy |-> NoUser, revoked |-> FALSE]
Rows     == [exists : BOOLEAN, expires : 0 .. MaxTime + TTL,
             acceptedBy : Users \cup {NoUser}, revoked : BOOLEAN]

Requests == [op : {"create"}, invite : Invites, user : Users, expires : Nat]
              \cup [op : {"revoke"}, invite : Invites]
              \cup [op : {"accept"}, invite : Invites, user : Users, archived : BOOLEAN]
NoReq    == [op |-> "none"]

Goto(p, step) == pc' = [pc EXCEPT ![p] = step]

End(p) ==
    /\ Goto(p, "idle")
    /\ req' = [req EXCEPT ![p] = NoReq]
    /\ advisory' = IF advisory = p THEN NoProc ELSE advisory
    /\ inviteLock' = [i \in Invites |-> IF inviteLock[i] = p THEN NoProc ELSE inviteLock[i]]

\* What open transactions hold: the share lock on the inviter's membership, the
\* key of a membership row not committed yet, the key-share lock on the tenant.
InviterLocked(u) ==
    \E p \in Procs : req[p].op = "create" /\ pc[p] \in {"fk", "commit"} /\ req[p].user = u
JoiningUser(u) ==
    \E p \in Procs : req[p].op = "accept" /\ pc[p] \in {"fk", "mark", "commit"} /\ req[p].user = u
TenantKeyShared ==
    \E p \in Procs : req[p].op # "revoke" /\ pc[p] \in {"mark", "commit"}

----------------------------------------------------------------------------
(* Arrival: the gates read before the transaction, and the deadline *)

CreateTenantInvitation(p) ==
    /\ pc[p] = "idle"
    /\ ~archived
    /\ \E i \in Invites, c \in Users :
          /\ ~invitations[i].exists
          /\ \A q \in Procs : req[q].op = "create" => req[q].invite # i
          /\ req' = [req EXCEPT ![p] = [op |-> "create", invite |-> i, user |-> c,
                                        expires |-> clock + TTL]]
    /\ Goto(p, "lock")
    /\ UNCHANGED <<invitations, role, archived, advisory, inviteLock, clock, admitted>>

RevokeTenantInvitation(p) ==
    /\ pc[p] = "idle"
    /\ ~archived
    /\ \E i \in Invites : req' = [req EXCEPT ![p] = [op |-> "revoke", invite |-> i]]
    /\ Goto(p, "find")
    /\ UNCHANGED <<invitations, role, archived, advisory, inviteLock, clock, admitted>>

\* The tenant is read here and judged later, from this copy.
AcceptTenantInvitation(p) ==
    /\ pc[p] = "idle"
    /\ \E i \in Invites, u \in Users :
          req' = [req EXCEPT ![p] = [op |-> "accept", invite |-> i, user |-> u,
                                     archived |-> archived]]
    /\ Goto(p, "lock")
    /\ UNCHANGED <<invitations, role, archived, advisory, inviteLock, clock, admitted>>

----------------------------------------------------------------------------
(* Statements *)

LockTenantMemberships(p) ==
    /\ pc[p] = "lock"
    /\ advisory = NoProc
    /\ advisory' = p
    /\ Goto(p, IF req[p].op = "create" THEN "require" ELSE "find")
    /\ UNCHANGED <<invitations, role, archived, inviteLock, clock, req, admitted>>

\* Mutant: belonging to the tenant is taken for the permission to write it.
RequireMembership(p) ==
    /\ pc[p] = "require"
    /\ IF role[req[p].user] # NoRole
         THEN Goto(p, "fk") /\ UNCHANGED <<req, advisory, inviteLock>>
         ELSE End(p)
    /\ UNCHANGED <<invitations, role, archived, clock, admitted>>

\* Authorizer.Require on the inviter, whose membership row stays share-locked.
Require(p) ==
    /\ pc[p] = "require"
    /\ IF Grants(role[req[p].user], ScopeTenantWrite)
         THEN Goto(p, "fk") /\ UNCHANGED <<req, advisory, inviteLock>>
         ELSE End(p)
    /\ UNCHANGED <<invitations, role, archived, clock, admitted>>

\* findInvitation ... FOR UPDATE OF i, by public id or by token hash.
FindInvitation(p) ==
    /\ pc[p] = "find"
    /\ IF invitations[req[p].invite].exists
         THEN /\ inviteLock[req[p].invite] \in {NoProc, p}
              /\ inviteLock' = [inviteLock EXCEPT ![req[p].invite] = p]
              /\ Goto(p, "close")
              /\ UNCHANGED <<req, advisory>>
         ELSE End(p)
    /\ UNCHANGED <<invitations, role, archived, clock, admitted>>

\* Mutant: only the deadline closes an invitation.
OpenUntilDeadline(i, now) == now < invitations[i].expires

\* Invitation.Open
Open(i, now) ==
    /\ invitations[i].acceptedBy = NoUser /\ ~invitations[i].revoked
    /\ now < invitations[i].expires

\* Invitation.Accept or Revoke at the time read under the row lock; accepting
\* then judges the copy of the tenant.
CloseInvitation(p) ==
    /\ pc[p] = "close"
    /\ IF Open(req[p].invite, clock) /\ (req[p].op = "accept" => ~req[p].archived)
         THEN /\ Goto(p, IF req[p].op = "accept" THEN "join" ELSE "mark")
              /\ UNCHANGED <<req, advisory, inviteLock>>
         ELSE End(p)
    /\ UNCHANGED <<invitations, role, archived, clock, admitted>>

\* Mutant: a membership that is there already is left as it is.
InsertMembershipIfMissing(p) ==
    /\ pc[p] = "join"
    /\ Goto(p, "fk")
    /\ UNCHANGED <<invitations, role, archived, advisory, inviteLock, clock, req, admitted>>

\* AddTenantMember: ErrMembershipAlreadyExists rolls the acceptance back.
InsertMembership(p) ==
    /\ pc[p] = "join"
    /\ IF role[req[p].user] = NoRole
         THEN Goto(p, "fk") /\ UNCHANGED <<req, advisory, inviteLock>>
         ELSE End(p)
    /\ UNCHANGED <<invitations, role, archived, clock, admitted>>

\* The foreign key to tenants of the new invitation or membership.
CheckTenantKey(p) ==
    /\ pc[p] = "fk"
    /\ Goto(p, IF req[p].op = "accept" THEN "mark" ELSE "commit")
    /\ UNCHANGED <<invitations, role, archived, advisory, inviteLock, clock, req, admitted>>

\* Mutant: the time to live is added once more as the row is written.
RowAfterTwiceTTL(r) ==
    CASE r.op = "create" -> [NoInvite EXCEPT !.exists = TRUE, !.expires = r.expires + TTL]
      [] r.op = "revoke" -> [invitations[r.invite] EXCEPT !.revoked = TRUE]
      [] r.op = "accept" -> [invitations[r.invite] EXCEPT !.acceptedBy = r.user]

\* The row a transaction leaves behind: MarkInvitationAccepted,
\* MarkInvitationRevoked, or the row CreateInvitation inserted.
RowAfter(r) ==
    CASE r.op = "create" -> [NoInvite EXCEPT !.exists = TRUE, !.expires = r.expires]
      [] r.op = "revoke" -> [invitations[r.invite] EXCEPT !.revoked = TRUE]
      [] r.op = "accept" -> [invitations[r.invite] EXCEPT !.acceptedBy = r.user]

\* The UPDATE has no condition on the state of the row, but the table's
\* closed_check refuses a row both accepted and revoked.
MarkInvitation(p) ==
    LET row == RowAfter(req[p]) IN
    /\ pc[p] = "mark"
    /\ IF row.acceptedBy # NoUser /\ row.revoked
         THEN End(p)
         ELSE Goto(p, "commit") /\ UNCHANGED <<req, advisory, inviteLock>>
    /\ UNCHANGED <<invitations, role, archived, clock, admitted>>

Commit(p) ==
    LET r == req[p] IN
    /\ pc[p] = "commit"
    /\ invitations' = [invitations EXCEPT ![r.invite] = RowAfter(r)]
    /\ IF r.op = "accept"
         THEN /\ role' = [role EXCEPT ![r.user] = "staff"]
              /\ admitted' = [admitted EXCEPT ![r.invite] = @ \cup {r.user}]
         ELSE UNCHANGED <<role, admitted>>
    /\ End(p)
    /\ UNCHANGED <<archived, clock>>

Rollback(p) ==
    /\ pc[p] # "idle"
    /\ End(p)
    /\ UNCHANGED <<invitations, role, archived, clock, admitted>>

----------------------------------------------------------------------------
(* The other writes of the tenant, each as one step *)

\* RevokeRole and ChangeTenantRole: they hold the advisory lock, and wait for
\* the share lock of an inviter.  Another owner remains.
RemoveOrDemote(u) ==
    /\ role[u] # NoRole
    /\ \E v \in Users \ {u} : role[v] = "owner"
    /\ advisory = NoProc
    /\ ~InviterLocked(u)
    /\ \E r \in {NoRole, "staff"} : role' = [role EXCEPT ![u] = r]
    /\ UNCHANGED <<invitations, archived, advisory, inviteLock, clock, local, admitted>>

\* AddTenantMember: its INSERT waits for an acceptance by the same user.  Its
\* gate may have been passed before the tenant was archived.
AddMember(u) ==
    /\ role[u] = NoRole
    /\ ~JoiningUser(u)
    /\ \E r \in GrantableRoles : role' = [role EXCEPT ![u] = r]
    /\ UNCHANGED <<invitations, archived, advisory, inviteLock, clock, local, admitted>>

\* ArchiveTenant: FOR UPDATE on the tenant waits for key-share locks on it.
ArchiveTenant ==
    /\ ~archived
    /\ ~TenantKeyShared
    /\ archived' = TRUE
    /\ UNCHANGED <<invitations, role, advisory, inviteLock, clock, local, admitted>>

Tick ==
    /\ clock < MaxTime
    /\ clock' = clock + 1
    /\ UNCHANGED <<invitations, role, archived, advisory, inviteLock, local, admitted>>

----------------------------------------------------------------------------

Init ==
    /\ invitations = [i \in Invites |-> NoInvite]
    /\ \E owner \in Users :
          role = [u \in Users |-> IF u = owner THEN "owner" ELSE NoRole]
    /\ archived = FALSE
    /\ advisory = NoProc
    /\ inviteLock = [i \in Invites |-> NoProc]
    /\ clock = 0
    /\ pc = [p \in Procs |-> "idle"]
    /\ req = [p \in Procs |-> NoReq]
    /\ admitted = [i \in Invites |-> {}]

Arrival(p) ==
    CreateTenantInvitation(p) \/ RevokeTenantInvitation(p) \/ AcceptTenantInvitation(p)

Statement(p) ==
    \/ LockTenantMemberships(p) \/ Require(p) \/ FindInvitation(p)
    \/ CloseInvitation(p) \/ InsertMembership(p) \/ CheckTenantKey(p)
    \/ MarkInvitation(p) \/ Commit(p)

Environment ==
    (\E u \in Users : RemoveOrDemote(u) \/ AddMember(u)) \/ ArchiveTenant \/ Tick

Next == Environment \/ \E p \in Procs : Arrival(p) \/ Statement(p) \/ Rollback(p)

Spec == Init /\ [][Next]_vars

----------------------------------------------------------------------------
(* Properties *)

Steps == {"idle", "lock", "require", "find", "close", "join", "fk", "mark", "commit"}

TypeOK ==
    /\ invitations \in [Invites -> Rows]
    /\ role \in [Users -> RoleOrNone]
    /\ archived \in BOOLEAN
    /\ advisory \in Procs \cup {NoProc}
    /\ inviteLock \in [Invites -> Procs \cup {NoProc}]
    /\ clock \in 0 .. MaxTime
    /\ pc \in [Procs -> Steps]
    /\ req \in [Procs -> Requests \cup {NoReq}]
    /\ admitted \in [Invites -> SUBSET Users]

\* An invitation brings at most one person in, the one its row names, and a
\* revoked one nobody, however acceptances and the revocation race; also when
\* that person has left the tenant since and tries the token again.
AdmitsOnce ==
    \A i \in Invites :
       /\ admitted[i] = {invitations[i].acceptedBy} \ {NoUser}
       /\ invitations[i].revoked => admitted[i] = {}

\* The token is spent exactly by the commit that makes its bearer a member: a
\* bearer who belongs to the tenant already does not spend it.
SpentOnlyByJoining ==
    [][\A i \in Invites :
          LET u == invitations'[i].acceptedBy IN
          u # invitations[i].acceptedBy => role[u] = NoRole /\ role'[u] = "staff"]_vars

\* CreateTenantInvitation commits only while its inviter may write the tenant.
InviterMayWrite ==
    \A p \in Procs :
       pc[p] = "commit" /\ req[p].op = "create" => Grants(role[req[p].user], ScopeTenantWrite)

\* ListOpenInvitations at the current time.
ListTenantInvitations ==
    {i \in Invites : /\ invitations[i].exists
                     /\ invitations[i].acceptedBy = NoUser
                     /\ ~invitations[i].revoked
                     /\ invitations[i].expires > clock}

\* Closing is final: nothing writes to an accepted or revoked invitation again
\* (the UPDATEs have no condition on its state), and one that is off the list of
\* open invitations, closed or past its deadline, never comes back to it.
ClosedForGood ==
    [][\A i \in Invites : invitations[i].exists =>
          /\ invitations[i].acceptedBy # NoUser \/ invitations[i].revoked
                => invitations'[i] = invitations[i]
          /\ i \notin ListTenantInvitations => i \notin ListTenantInvitations']_vars
=============================================================================
